---- MODULE Spec2Model ----
(***************************************************************************)
(* Global rebalance of an AIStore target (rebManager): the staged          *)
(* coordinator runGlobalReb, the serializer, the per-mountpath joggers,    *)
(* the object and ACK receive handlers and the retransmit path.            *)
(***************************************************************************)
EXTENDS Integers, FiniteSets, Sequences, TLC

(* ------------------------------ bounds -------------------------------- *)
\* invocations of runGlobalReb per target
NInv == 2
\* LomAcks shards (fs.LomCacheMask + 1 in the source)
NShards == 2
\* highest rebalance generation id
MaxG == 2
\* environment faults (I/O and network errors) per behaviour
MaxFaults == 1

(* ------------------------- program constants --------------------------- *)
rebStageInactive == 0
rebStageInit == 1
rebStageTraverse == 2
rebStageECNameSpace == 3
rebStageWaitAck == 4
rebStageFin == 5
rebStageFinStreams == 6
rebStageDone == 7
\* globalRebFini: quiescent, maxquiet := 0, 10
maxquiet == 10

Targets == {1, 2, 3}
Objects == {"x", "y"}
Inv == 1..NInv
Joggers == {"ais", "cloud"}
Shards == 1..NShards

(* ---------------------- external collaborators ------------------------- *)
\* Smap: the targets of each cluster-map version (targets join one by one)
Members(v) == {t \in Targets : t <= v}
\* highest-random-weight of an object on a target
Weight(o, t) == IF o = "x" THEN t ELSE 4 - t
\* cluster.HrwTarget: the member of the Smap with the highest weight
HrwTarget(o, v) == CHOOSE t \in Members(v) : \A u \in Members(v) : Weight(o, u) <= Weight(o, t)
\* lom.Hkey: index of the LomAcks shard of an object
Hkey(o) == IF o = "x" THEN 1 ELSE 2
\* the mountpath jogger (ais or cloud) that walks an object
Provider(o) == IF o = "x" THEN "ais" ELSE "cloud"

VARIABLES
    smapowner,  \* [Targets -> Nat]: version of t.smapowner.get(), 0 = not joined
    env,        \* the cluster around the targets: vcap = the latest Smap version the
                \* primary publishes, ec = bmdowner.get().ecUsed(), gcap = the rebalance
                \* IDs the primary has issued, lag = how old the Smap of a call may be,
                \* multiplier = config.Rebalance.Multiplier,
                \* objs = the objects the cluster stores
    reb,        \* [Targets -> rebManager]: stage, smap, globRebID, laterx, semaCh, streams, acks
    marker,     \* [Targets -> BOOLEAN]: the persistent in-progress mark exists
    xentry,     \* [Targets -> 0..NInv]: xactions registry entry of ActGlobalReb (0 = nil)
    xact,       \* [Targets -> [Inv -> xactGlobalReb]]: aborted, finished, smapVersion
    md,         \* [Targets -> [Inv -> globalRebArgs and the locals of runGlobalReb]]
    nfault,     \* faults injected so far
    lomacks,    \* [Targets -> SUBSET Objects]: unames waiting for ACK (shard = Hkey)
    mu,         \* [Targets -> [Shards -> BOOLEAN]]: LomAcks.mu held across steps
    filterGFN,  \* [Targets -> SUBSET Objects]
    fsobj,      \* [Targets -> SUBSET Objects]: objects persisted on the target
    rlock,      \* [Targets -> [Objects -> Nat]]: shared LOM locks held
    jog,        \* [Targets -> [Joggers -> globalRebJogger]]
    snd,        \* [Targets -> [Callers -> send in progress]]: pc, lom
    wire,       \* object stream: [src, dst, obj, cb, rx, waited] accepted by SendV
    ackwire,    \* ACK stream: [src, dst, obj, st] accepted by acks.SendV
    stats,      \* [Targets -> [tx, rx]]: TxRebCount, RxRebCount
    handed,     \* [Targets -> SUBSET Objects]: accepted by SendV, no ACK processed since
    lenv,       \* the local resilver's call: skipGlobMisplaced, the objects with replicas
    mpfiles,    \* SUBSET (Objects \X MPaths): object files on the mountpaths of target 1
    xlreb,      \* xactLocalReb: pc of runLocalReb, aborted
    ljog,       \* [MPaths -> localRebJogger]: pc, seen, and the locals lom, tsi, copied, err of walk
    mjog,       \* one globalRebJogger seen with its semaphore: multiplier, pc and entries
                \* left of fs.Walk, len(rj.sema), len(rj.errCh), and its goroutines by
                \* position: in send, send returned nil / an error, before rj.errCh <- ers;
                \* sent = the sends that returned nil
    dr,         \* one DiffResolver with its producers and its consumer: srcCh, dstCh,
                \* resultCh and whether each is closed, pc and the locals src, srcOk,
                \* dst, dstOk of Start, err (dr.err has errors), ret = what the last
                \* Next returned; srcIn, dstIn = the names still to be pushed,
                \* remote, equal = what the DiffResolverCtx answered per name,
                \* out = every result Start has put on resultCh
    co          \* one configOwner with the callers of modify: mutex (0 = unlocked),
                \* config = the Version behind co.config, gco = the Version behind
                \* cmn.GCO, override = GetOverrideConfig() is not nil, loaded = the
                \* Version that load has put, saved = the calls of persist that
                \* succeeded since, left = the calls of modify to come,
                \* mod = per caller the pc and the locals clone, updated, err of runPre

ctlVars == <<smapowner, env, reb, marker, xentry, xact, md, nfault>>
dataVars == <<lomacks, mu, filterGFN, fsobj, rlock, jog, snd, wire, ackwire, stats, handed>>
\* the local resilver (runLocalReb, localRebJogger)
\* the parts that are modelled on their own
subVars == <<mjog, dr, co>>
extVars == <<lenv, mpfiles, xlreb, ljog, subVars>>
vars == <<ctlVars, dataVars, extVars>>

(* ------------------------------- state --------------------------------- *)
rebManager0 ==
    [stage |-> rebStageInactive, smap |-> 0, globRebID |-> 0, laterx |-> FALSE,
     semaCh |-> 1, streams |-> "nil", acks |-> "nil"]

md0 ==
    [pc |-> "idle", smap |-> 0, globRebID |-> 0, canRun |-> FALSE, pmarker |-> FALSE,
     errCnt |-> 0, cnt |-> 0, quiescent |-> 0, aborted |-> FALSE, res |-> "none",
     shard |-> 0, todo |-> {}, lom |-> "none"]

\* runGlobalReb returned: its locals are gone
Ret(res) == [md0 EXCEPT !.pc = "ret", !.res = res]

xact0 == [aborted |-> FALSE, finished |-> FALSE, smapVersion |-> 0, exists |-> FALSE]

jog0 == [pc |-> "idle", todo |-> {}, xreb |-> 0]

\* a call of globalRebJogger.send: by a mountpath jogger or by retransmit
Callers == Joggers \cup {"retx"}
snd0 == [pc |-> "none", lom |-> "none", dst |-> 0]

\* the mountpaths of target 1
MPaths == {1, 2}
ljog0 == [pc |-> "idle", seen |-> {}, lom |-> "none", tsi |-> 0, copied |-> FALSE, err |-> FALSE]
\* a jogger that has not been started
mjog0 ==
    [multiplier |-> 1, pc |-> "idle", todo |-> 0, sema |-> 0, errCh |-> 0,
     send |-> 0, ok |-> 0, failed |-> 0, queue |-> 0, sent |-> 0]
\* the object names of the two streams of a DiffResolver, 0 = nil
MaxName == 3
Names == 1..MaxName
\* a DiffResolver that has not been created
dr0 ==
    [pc |-> "idle", srcIn |-> <<>>, dstIn |-> <<>>, srcAll |-> <<>>, dstAll |-> <<>>,
     srcCh |-> <<>>, srcClosed |-> FALSE, dstCh |-> <<>>, dstClosed |-> FALSE,
     resultCh |-> <<>>, resClosed |-> FALSE, out |-> <<>>,
     src |-> 0, srcOk |-> FALSE, dst |-> 0, dstOk |-> FALSE,
     remote |-> [n \in Names |-> "unasked"], equal |-> [n \in Names |-> "unasked"],
     err |-> FALSE, ret |-> [res |-> [Action |-> 0, Src |-> 0, Dst |-> 0], err |-> FALSE]]
\* the callers of configOwner.modify
NCallers == 2
ConfCallers == 1..NCallers
configModifier0 == [pc |-> "idle", clone |-> 0, updated |-> FALSE, err |-> FALSE]
\* a configOwner that has not been created
co0 ==
    [mutex |-> 0, config |-> 0, gco |-> 0, override |-> FALSE, loaded |-> 0, saved |-> 0,
     left |-> 0,
     mod |-> [c \in ConfCallers |-> configModifier0]]
\* no local resilver has been called
LocalIdle ==
    /\ lenv = [skipGlobMisplaced |-> FALSE, copies |-> {}]
    /\ mpfiles = {}
    /\ xlreb = [pc |-> "none", aborted |-> FALSE]
    /\ ljog = [mp \in MPaths |-> ljog0]

\* none of the parts that are modelled on their own is active
SubIdle ==
    /\ mjog = mjog0
    /\ dr = dr0
    /\ co = co0

\* the rebalance after construction; vers = the Smap version each target has,
\* e = the cluster around the targets, placed = where the objects are stored,
\* calls = the calls of runGlobalReb each target gets, nf = the faults already
\* used up
RebWith(vers, e, placed, calls, nf) ==
    /\ smapowner = vers
    /\ env = e
    /\ reb = [t \in Targets |-> rebManager0]
    /\ marker = [t \in Targets |-> FALSE]
    /\ xentry = [t \in Targets |-> 0]
    /\ xact = [t \in Targets |-> [i \in Inv |-> xact0]]
    /\ md = [t \in Targets |-> [i \in Inv |-> IF i <= calls THEN md0 ELSE Ret("none")]]
    /\ nfault = nf
    /\ lomacks = [t \in Targets |-> {}]
    /\ mu = [t \in Targets |-> [k \in Shards |-> FALSE]]
    /\ filterGFN = [t \in Targets |-> {}]
    /\ fsobj = placed
    /\ rlock = [t \in Targets |-> [o \in Objects |-> 0]]
    /\ jog = [t \in Targets |-> [j \in Joggers |-> jog0]]
    /\ snd = [t \in Targets |-> [c \in Callers |-> snd0]]
    /\ wire = {}
    /\ ackwire = {}
    /\ stats = [t \in Targets |-> [tx |-> 0, rx |-> 0]]
    /\ handed = [t \in Targets |-> {}]

InitWith(vers, e, placed, calls, nf) ==
    /\ RebWith(vers, e, placed, calls, nf)
    /\ LocalIdle
    /\ SubIdle

(* ------------------------------ helpers -------------------------------- *)
SetMd(t, i, r) == md' = [md EXCEPT ![t][i] = r]
SetReb(t, r) == reb' = [reb EXCEPT ![t] = r]
Fault == nfault < MaxFaults /\ nfault' = nfault + 1
NoFault == UNCHANGED nfault

\* xactBase.Aborted / Finished of the xaction this run renewed
Aborted(t, i) == xact[t][i].aborted
Finished(t, i) == xact[t][i].finished
\* the other targets of an Smap
Peers(t, v) == Members(v) \ {t}

(* ------------------------- environment steps --------------------------- *)
\* the primary's metasync delivers the next Smap version to target t
SmapUpdate(t) ==
    /\ smapowner[t] < env.vcap
    /\ smapowner' = [smapowner EXCEPT ![t] = IF @ = 0 THEN t ELSE @ + 1]
    /\ smapowner'[t] <= env.vcap
    /\ UNCHANGED <<extVars, env, reb, marker, xentry, xact, md, nfault, dataVars>>

\* xactBase.Abort
AbortXact(x) == [x EXCEPT !.aborted = TRUE]

\* the registered rebalance xaction is aborted from outside (user, shutdown)
UserAbort(t) ==
    /\ xentry[t] # 0
    /\ ~xact[t][xentry[t]].aborted
    /\ ~xact[t][xentry[t]].finished
    /\ xact' = [xact EXCEPT ![t][xentry[t]] = AbortXact(@)]
    /\ UNCHANGED <<extVars, smapowner, env, reb, marker, xentry, md, nfault, dataVars>>

(* --------------------------- bcast predicates -------------------------- *)
\* rebManager.bcast: the number of peers that do not satisfy the predicate
bcast(t, v, ok(_)) == Cardinality({p \in Peers(t, v) : ~ok(p)})
pingTarget(p) == TRUE
rxReady(p) == reb[p].stage >= rebStageTraverse
waitFinExtended(p) == reb[p].stage \in {rebStageWaitAck, rebStageFin}

(* ------------------------------ precheck ------------------------------- *)
precheckFails_never(errCnt) == FALSE

\* if errCnt := reb.bcast(..., reb.pingTarget, nil); errCnt > 0 { return false }
precheckFails(errCnt) == errCnt > 0

\* runGlobalReb is called with (smap v, globRebID g); globalRebPrecheck pings the peers
runGlobalReb(t, i) ==
    /\ md[t][i].pc = "idle"
    /\ (IF i = 1 THEN TRUE ELSE md[t][i - 1].pc # "idle")
    /\ smapowner[t] > 0
    /\ \E v \in {0} \cup (smapowner[t] - env.lag)..smapowner[t], g \in 1..env.gcap,
          unreachable \in 0..1 :
        LET errCnt == bcast(t, v, pingTarget) + unreachable IN
        /\ (v = 0 \/ t \in Members(v))
        /\ IF unreachable > 0 THEN Fault ELSE NoFault
        /\ IF precheckFails(errCnt)
           THEN SetMd(t, i, Ret("pingfail"))
           ELSE \* if md.smap.version() == 0 { md.smap = reb.t.smapowner.get() }
                SetMd(t, i, [md[t][i] EXCEPT !.pc = "serialize", !.globRebID = g,
                               !.smap = IF v = 0 THEN smapowner[t] ELSE v])
    /\ UNCHANGED <<extVars, smapowner, env, reb, marker, xentry, xact, dataVars>>

(* ------------------------------ serialize ------------------------------ *)
semaChRecv_always(tokens) == TRUE

\* select { case <-reb.semaCh: canRun = true; default: }
semaChRecv(tokens) == tokens > 0

serialize_select(t, i) ==
    /\ md[t][i].pc = "serialize"
    /\ IF semaChRecv(reb[t].semaCh)
       THEN /\ SetReb(t, [reb[t] EXCEPT !.semaCh = IF @ > 0 THEN @ - 1 ELSE 0])
            /\ SetMd(t, i, [md[t][i] EXCEPT !.pc = "serialize_chk", !.canRun = TRUE])
       ELSE /\ UNCHANGED reb
            /\ SetMd(t, i, [md[t][i] EXCEPT !.pc = "serialize_chk"])
    /\ UNCHANGED <<extVars, smapowner, env, marker, xentry, xact, nfault, dataVars>>

semaChGiveBack_kept(canRun, tokens) == tokens

\* reb.semaCh <- struct{}{} on the early returns of serialize
semaChGiveBack(canRun, tokens) == IF canRun THEN tokens + 1 ELSE tokens

olderThan_orSame(otherVer, ver) == otherVer <= ver

\* otherXreb.smapVersion < ver
olderThan(otherVer, ver) == otherVer < ver

abortsOlder_never(other, ver) == FALSE

\* otherXreb.smapVersion < ver && !otherXreb.Finished()
abortsOlder(other, ver) == olderThan(other.smapVersion, ver) /\ ~other.finished

serialize_check(t, i) ==
    LET m == md[t][i]
        nver == smapowner[t]
        back == [reb[t] EXCEPT !.semaCh = semaChGiveBack(m.canRun, @)]
    IN
    /\ m.pc = "serialize_chk"
    /\ IF nver > m.smap
       THEN \* vs newer Smap
            /\ SetReb(t, back)
            /\ SetMd(t, i, Ret("newerSmap"))
            /\ UNCHANGED xact
       ELSE IF reb[t].globRebID = m.globRebID
       THEN \* already running
            /\ SetReb(t, back)
            /\ SetMd(t, i, Ret("alreadyRunning"))
            /\ UNCHANGED xact
       ELSE IF xentry[t] = 0
       THEN \* vs current xaction: none
            /\ SetMd(t, i, [m EXCEPT !.pc = IF m.canRun THEN "init" ELSE "serialize"])
            /\ UNCHANGED <<reb, xact>>
       ELSE IF m.canRun
       THEN \* cmn.Assert(otherXreb.Finished())
            /\ SetMd(t, i, [m EXCEPT !.pc = IF xact[t][xentry[t]].finished
                                            THEN "init" ELSE "panic"])
            /\ UNCHANGED <<reb, xact>>
       ELSE /\ xact' = IF abortsOlder(xact[t][xentry[t]], m.smap)
                       THEN [xact EXCEPT ![t][xentry[t]] = AbortXact(@)]
                       ELSE xact
            /\ SetMd(t, i, [m EXCEPT !.pc = "serialize"])
            /\ UNCHANGED reb
    /\ UNCHANGED <<extVars, smapowner, env, marker, xentry, nfault, dataVars>>

(* --------------------------- globalRebInit ----------------------------- *)
\* xactions.renewGlobalReb: a new xaction for (smap version, globRebID) is registered
renewGlobalReb(ver) == [aborted |-> FALSE, finished |-> FALSE, smapVersion |-> ver, exists |-> TRUE]

\* stage INIT, renew the xaction, beginStreams, reset the GFN filter, new LomAcks
globalRebInit(t, i) ==
    /\ md[t][i].pc = "init"
    /\ SetReb(t, [reb[t] EXCEPT !.stage = rebStageInit, !.streams = "open",
                                !.acks = "open", !.laterx = FALSE])
    /\ xentry' = [xentry EXCEPT ![t] = i]
    /\ xact' = [xact EXCEPT ![t][i] = renewGlobalReb(md[t][i].smap)]
    /\ filterGFN' = [filterGFN EXCEPT ![t] = {}]
    /\ lomacks' = [lomacks EXCEPT ![t] = {}]
    /\ mu' = [mu EXCEPT ![t] = [k \in Shards |-> FALSE]]
    /\ SetMd(t, i, [md[t][i] EXCEPT !.pc = "init_marker"])
    /\ UNCHANGED <<extVars, smapowner, env, marker, nfault, fsobj, rlock, jog, snd, wire, ackwire, stats, handed>>

createMarker_noFile(old, ok) == old

\* cmn.CreateFile(md.pmarker): the mark exists afterwards unless the create failed
createMarker(old, ok) == IF ok THEN TRUE ELSE old

\* 4. create persistent mark
globalRebInit_marker(t, i) ==
    /\ md[t][i].pc = "init_marker"
    /\ \E ok \in BOOLEAN :
        /\ IF ok THEN NoFault ELSE Fault
        /\ marker' = [marker EXCEPT ![t] = createMarker(@, ok)]
        /\ SetMd(t, i, [md[t][i] EXCEPT !.pc = "init_publish", !.pmarker = ok])
    /\ UNCHANGED <<extVars, smapowner, env, reb, xentry, xact, dataVars>>

\* 5. ready - can receive objects
globalRebInit_publish(t, i) ==
    /\ md[t][i].pc = "init_publish"
    /\ SetReb(t, [reb[t] EXCEPT !.smap = md[t][i].smap, !.globRebID = md[t][i].globRebID])
    /\ SetMd(t, i, [md[t][i] EXCEPT !.pc = "sync"])
    /\ UNCHANGED <<extVars, smapowner, env, marker, xentry, xact, nfault, dataVars>>

(* ------------------------ globalRebSyncAndRun -------------------------- *)
\* stage TRAVERSE; bmdowner.get().ecUsed() selects globalRebRunEC or globalRebRun
globalRebSyncAndRun(t, i) ==
    /\ md[t][i].pc = "sync"
    /\ SetReb(t, [reb[t] EXCEPT !.stage = rebStageTraverse])
    /\ SetMd(t, i, [md[t][i] EXCEPT !.pc = IF env.ec THEN "ec" ELSE "run"])
    /\ UNCHANGED <<extVars, smapowner, env, marker, xentry, xact, nfault, dataVars>>

\* ecScrub.run(): an error ends the sub-phase, else stage EC_NAMESPACE
globalRebRunEC(t, i) ==
    /\ md[t][i].pc = "ec"
    /\ \/ /\ Fault
          /\ SetMd(t, i, [md[t][i] EXCEPT !.pc = "fin"])
          /\ UNCHANGED reb
       \/ /\ NoFault
          /\ SetReb(t, [reb[t] EXCEPT !.stage = rebStageECNameSpace])
          /\ SetMd(t, i, [md[t][i] EXCEPT !.pc = "ec_wait"])
    /\ UNCHANGED <<extVars, smapowner, env, marker, xentry, xact, dataVars>>

\* waitAllStage, then the slice counts are added to TxRebCount and RxRebCount
globalRebRunEC_wait(t, i) ==
    /\ md[t][i].pc = "ec_wait"
    /\ \E remSlices \in 0..1, locSlices \in 0..1 :
        stats' = [stats EXCEPT ![t].tx = @ + remSlices, ![t].rx = @ + locSlices]
    /\ \/ /\ Fault     \* waitAllStage returned an error
          /\ SetMd(t, i, [md[t][i] EXCEPT !.pc = "fin"])
       \/ /\ NoFault
          /\ SetMd(t, i, [md[t][i] EXCEPT !.pc = "waitack"])
    /\ UNCHANGED <<extVars, smapowner, env, reb, marker, xentry, xact,
                   lomacks, mu, filterGFN, fsobj, rlock, jog, snd, wire, ackwire, handed>>

\* globalRebRun: bcast rxReady (result ignored), then one jogger per mountpath and provider
globalRebRun(t, i) ==
    /\ md[t][i].pc = "run"
    /\ IF Aborted(t, i)
       THEN /\ SetMd(t, i, [md[t][i] EXCEPT !.pc = "fin"])
            /\ UNCHANGED jog
       ELSE /\ SetMd(t, i, [md[t][i] EXCEPT !.pc = "joggers"])
            /\ jog' = [jog EXCEPT ![t] = [j \in Joggers |->
                        [pc |-> "walk", todo |-> {o \in fsobj[t] : Provider(o) = j},
                         xreb |-> i]]]
    /\ UNCHANGED <<extVars, smapowner, env, reb, marker, xentry, xact, nfault,
                   lomacks, mu, filterGFN, fsobj, rlock, snd, wire, ackwire, stats, handed>>

\* wg.Wait(): every jogger of this run is done
globalRebRun_wait(t, i) ==
    /\ md[t][i].pc = "joggers"
    /\ \A j \in Joggers : jog[t][j].pc = "done"
    /\ SetMd(t, i, [md[t][i] EXCEPT !.pc = IF Aborted(t, i) THEN "fin" ELSE "waitack"])
    /\ jog' = [jog EXCEPT ![t] = [j \in Joggers |-> jog0]]
    /\ UNCHANGED <<extVars, smapowner, env, reb, marker, xentry, xact, nfault,
                   lomacks, mu, filterGFN, fsobj, rlock, snd, wire, ackwire, stats, handed>>

(* -------------------------- globalRebWaitAck --------------------------- *)
globalRebWaitAck(t, i) ==
    /\ md[t][i].pc = "waitack"
    /\ SetReb(t, [reb[t] EXCEPT !.stage = rebStageWaitAck])
    /\ SetMd(t, i, [md[t][i] EXCEPT !.pc = "wack_poll"])
    /\ UNCHANGED <<extVars, smapowner, env, marker, xentry, xact, nfault, dataVars>>

\* one pass over the LomAcks shards: cnt += len(lomack.q); timedOut: curwt >= maxwt
globalRebWaitAck_poll(t, i) ==
    LET cnt == Cardinality(lomacks[t]) IN
    /\ md[t][i].pc = "wack_poll"
    /\ \A k \in Shards : ~mu[t][k]
    /\ \E timedOut \in BOOLEAN :
        SetMd(t, i, [md[t][i] EXCEPT
            !.cnt = cnt,
            !.pc = IF Aborted(t, i) THEN "fin"
                   ELSE IF cnt = 0 \/ timedOut THEN "wack_sync"
                   ELSE "wack_poll"])
    /\ UNCHANGED <<extVars, smapowner, env, reb, marker, xentry, xact, nfault, dataVars>>

\* 8. synchronize: errCnt = bcast(waitFinExtended)
globalRebWaitAck_sync(t, i) ==
    /\ md[t][i].pc = "wack_sync"
    /\ IF Aborted(t, i)
       THEN SetMd(t, i, [md[t][i] EXCEPT !.pc = "fin"])
       ELSE SetMd(t, i, [md[t][i] EXCEPT !.pc = "retransmit",
                           !.errCnt = bcast(t, md[t][i].smap, waitFinExtended)])
    /\ UNCHANGED <<extVars, smapowner, env, reb, marker, xentry, xact, nfault, dataVars>>

\* 9. cnt = reb.retransmit(...); if cnt == 0 || md.xreb.Aborted() { break }
leavesWaitAck(cnt, aborted) == cnt = 0 \/ aborted

globalRebWaitAck_next(t, i) ==
    /\ md[t][i].pc = "retx_ret"
    /\ SetMd(t, i, [md[t][i] EXCEPT
            !.pc = IF leavesWaitAck(md[t][i].cnt, Aborted(t, i)) THEN "fin" ELSE "wack_poll"])
    /\ UNCHANGED <<extVars, smapowner, env, reb, marker, xentry, xact, nfault, dataVars>>

(* ------------------------- runGlobalReb: fin --------------------------- *)
runGlobalReb_fin(t, i) ==
    /\ md[t][i].pc = "fin"
    /\ SetReb(t, [reb[t] EXCEPT !.stage = rebStageFin])
    /\ SetMd(t, i, [md[t][i] EXCEPT !.pc = "fin_wait"])
    /\ UNCHANGED <<extVars, smapowner, env, marker, xentry, xact, nfault, dataVars>>

finWaits_never(errCnt, aborted) == FALSE

\* the condition of the loop: errCnt != 0 && !md.xreb.Aborted()
finWaits(errCnt, aborted) == errCnt # 0 /\ ~aborted

\* for errCnt != 0 && !md.xreb.Aborted() { errCnt = bcast(waitFinExtended) };
\* then globalRebFini starts with aborted := md.xreb.Aborted()
runGlobalReb_finwait(t, i) ==
    /\ md[t][i].pc = "fin_wait"
    /\ IF finWaits(md[t][i].errCnt, Aborted(t, i))
       THEN SetMd(t, i, [md[t][i] EXCEPT !.errCnt = bcast(t, md[t][i].smap, waitFinExtended)])
       ELSE SetMd(t, i, [md[t][i] EXCEPT !.pc = "fini_loop", !.quiescent = 0,
                           !.aborted = Aborted(t, i)])
    /\ UNCHANGED <<extVars, smapowner, env, reb, marker, xentry, xact, nfault, dataVars>>

(* ---------------------------- globalRebFini ---------------------------- *)
quietCount_noReset(laterx, quiescent) == quiescent + 1

\* if !reb.laterx.CAS(true, false) { quiescent++ } else { quiescent = 0 }
quietCount(laterx, quiescent) == IF laterx THEN 0 ELSE quiescent + 1

\* for quiescent < maxquiet && !aborted { laterx.CAS(true, false) ...; abortedAfter(sleep) }
globalRebFini_loop(t, i) ==
    /\ md[t][i].pc = "fini_loop"
    /\ IF md[t][i].quiescent < maxquiet /\ ~md[t][i].aborted
       THEN /\ SetMd(t, i, [md[t][i] EXCEPT
                    !.quiescent = quietCount(reb[t].laterx, @),
                    !.aborted = Aborted(t, i)])
            /\ SetReb(t, [reb[t] EXCEPT !.laterx = FALSE])
       ELSE /\ SetMd(t, i, [md[t][i] EXCEPT !.pc = "fini_rm"])
            /\ UNCHANGED reb
    /\ UNCHANGED <<extVars, smapowner, env, marker, xentry, xact, nfault, dataVars>>

removesMarker_always(aborted, pmarker) == pmarker

\* if !aborted { cmn.RemoveFile(md.pmarker) }
removesMarker(aborted, pmarker) == ~aborted /\ pmarker

globalRebFini_rm(t, i) ==
    /\ md[t][i].pc = "fini_rm"
    /\ \/ /\ NoFault
          /\ marker' = [marker EXCEPT ![t] =
                          IF removesMarker(md[t][i].aborted, md[t][i].pmarker) THEN FALSE ELSE @]
       \/ /\ removesMarker(md[t][i].aborted, md[t][i].pmarker)
          /\ Fault     \* RemoveFile failed: logged
          /\ UNCHANGED marker
    /\ SetMd(t, i, [md[t][i] EXCEPT !.pc = "fini_end"])
    /\ UNCHANGED <<extVars, smapowner, env, reb, xentry, xact, dataVars>>

endStreamsCAS_stays(stage) == stage

\* reb.stage.CAS(rebStageFin, rebStageFinStreams)
endStreamsCAS(stage) == IF stage = rebStageFin THEN rebStageFinStreams ELSE stage

closeStreams_leftOpen(streams) == streams

\* reb.streams.Close(true /* graceful */); reb.streams = nil
closeStreams(streams) == "nil"

EndTime_skipped(x) == x

\* if !md.xreb.Finished() { md.xreb.EndTime(time.Now()) }: Finished() holds afterwards
EndTime(x) == [x EXCEPT !.finished = TRUE]

\* endStreams (stage CAS FIN -> FIN_STREAMS, graceful close), then xreb.EndTime
globalRebFini_end(t, i) ==
    /\ md[t][i].pc = "fini_end"
    /\ IF reb[t].stage = rebStageFin
       THEN /\ \A m \in wire : m.src = t => ~m.cb
            /\ SetReb(t, [reb[t] EXCEPT !.stage = endStreamsCAS(@),
                                        !.streams = closeStreams(@), !.acks = "closed"])
       ELSE UNCHANGED reb
    /\ xact' = [xact EXCEPT ![t][i] = EndTime(@)]
    /\ SetMd(t, i, [md[t][i] EXCEPT !.pc = "fini_done"])
    /\ UNCHANGED <<extVars, smapowner, env, marker, xentry, nfault, dataVars>>

\* reb.stage.Store(rebStageDone)
globalRebFini_done(t, i) ==
    /\ md[t][i].pc = "fini_done"
    /\ SetReb(t, [reb[t] EXCEPT !.stage = rebStageDone])
    /\ SetMd(t, i, [md[t][i] EXCEPT !.pc = "release"])
    /\ UNCHANGED <<extVars, smapowner, env, marker, xentry, xact, nfault, dataVars>>

semaChSend_dropped(tokens) == tokens

\* reb.semaCh <- struct{}{}
semaChSend(tokens) == tokens + 1

\* reb.semaCh <- struct{}{} (a channel of capacity one)
globalRebFini_release(t, i) ==
    /\ md[t][i].pc = "release"
    /\ reb[t].semaCh = 0
    /\ SetReb(t, [reb[t] EXCEPT !.semaCh = semaChSend(@)])
    /\ SetMd(t, i, Ret("done"))
    /\ UNCHANGED <<extVars, smapowner, env, marker, xentry, xact, nfault, dataVars>>

(* -------------------------- globalRebJogger ---------------------------- *)
\* the first part of globalRebJogger.send, up to the LomAcks shard lock:
\* lom.Lock(false), Load, Exists, CksumComputeIfMissing, NewFileHandle
sendCall(t, c, o, dst) ==
    IF o \notin fsobj[t]
    THEN \* !lom.Exists(): goto rerr with err == nil
         /\ snd' = [snd EXCEPT ![t][c] = [pc |-> "ret_nil", lom |-> o, dst |-> dst]]
         /\ UNCHANGED <<rlock, nfault>>
    ELSE \/ /\ NoFault
            /\ snd' = [snd EXCEPT ![t][c] = [pc |-> "lock", lom |-> o, dst |-> dst]]
            /\ rlock' = [rlock EXCEPT ![t][o] = @ + 1]
         \/ /\ Fault   \* load, checksum or open error: goto rerr
            /\ snd' = [snd EXCEPT ![t][c] = [pc |-> "ret_err", lom |-> o, dst |-> dst]]
            /\ UNCHANGED rlock

isLocal_never(t, o, v) == FALSE

\* tsi.DaemonID == t.si.DaemonID: the object is at its home
isLocal(t, o, v) == HrwTarget(o, v) = t

\* globalRebJogger.walk: the callback for one directory entry
walk(t, j) ==
    LET i == jog[t][j].xreb
        ver == md[t][i].smap
    IN
    /\ jog[t][j].pc = "walk"
    /\ \E o \in jog[t][j].todo :
        LET rest == [jog[t][j] EXCEPT !.todo = @ \ {o}]
            stop == [jog[t][j] EXCEPT !.todo = {}, !.pc = "done"]
        IN
        IF Aborted(t, i) \/ Finished(t, i)
        THEN /\ jog' = [jog EXCEPT ![t][j] = stop]
             /\ UNCHANGED <<xact, filterGFN, snd, rlock, nfault>>
        ELSE IF o \notin fsobj[t] \/ isLocal(t, o, ver)
        THEN /\ jog' = [jog EXCEPT ![t][j] = rest]
             /\ UNCHANGED <<xact, filterGFN, snd, rlock, nfault>>
        ELSE IF smapowner[t] > ver
        THEN \* nver > rj.ver: rj.xreb.Abort()
             /\ xact' = [xact EXCEPT ![t][i] = AbortXact(@)]
             /\ jog' = [jog EXCEPT ![t][j] = stop]
             /\ UNCHANGED <<filterGFN, snd, rlock, nfault>>
        ELSE IF o \in filterGFN[t]
        THEN \* already sent via GFN
             /\ filterGFN' = [filterGFN EXCEPT ![t] = @ \ {o}]
             /\ jog' = [jog EXCEPT ![t][j] = rest]
             /\ UNCHANGED <<xact, snd, rlock, nfault>>
        ELSE \/ /\ Fault    \* lom.Load() failed: the walk ends with the error
                /\ jog' = [jog EXCEPT ![t][j] = stop]
                /\ UNCHANGED <<xact, filterGFN, snd, rlock>>
             \/ /\ sendCall(t, j, o, HrwTarget(o, ver))
                /\ jog' = [jog EXCEPT ![t][j] =
                              IF env.multiplier > 1
                              THEN rest    \* go func() { rj.send(lom, tsi) ... }()
                              ELSE [rest EXCEPT !.pc = "sending"]]
                /\ UNCHANGED <<xact, filterGFN>>
    /\ UNCHANGED <<extVars, smapowner, env, reb, marker, xentry, md,
                   lomacks, mu, fsobj, wire, ackwire, stats, handed>>

\* the returns of send: at the end (the object was handed to SendV), through
\* rerr with a nil error (nothing was handed over), through rerr with an error
SendReturns == {"ret_ok", "ret_nil", "ret_err"}
\* err == nil for the caller of send
errIsNil(ret) == ret \in {"ret_ok", "ret_nil"}

\* send returned to walk: an error ends fs.Walk
walk_sent(t, j) ==
    /\ jog[t][j].pc = "sending"
    /\ snd[t][j].pc \in SendReturns
    /\ jog' = [jog EXCEPT ![t][j] = IF errIsNil(snd[t][j].pc)
                                    THEN [@ EXCEPT !.pc = "walk"]
                                    ELSE [@ EXCEPT !.pc = "done", !.todo = {}]]
    /\ snd' = [snd EXCEPT ![t][j] = snd0]
    /\ UNCHANGED <<extVars, ctlVars, lomacks, mu, filterGFN, fsobj, rlock, wire, ackwire, stats, handed>>

\* rebalance.multiplier > 1: the goroutine of walk is over (<-rj.sema; the
\* error, if any, goes to errCh, which nobody reads)
walk_goroutine(t, j) ==
    /\ env.multiplier > 1
    /\ snd[t][j].pc \in SendReturns
    /\ snd' = [snd EXCEPT ![t][j] = snd0]
    /\ UNCHANGED <<extVars, ctlVars, lomacks, mu, filterGFN, fsobj, rlock, jog, wire, ackwire, stats, handed>>

\* globalRebJogger.jog: fs.Walk is over; confirmCh, wg.Done
jog_done(t, j) ==
    /\ jog[t][j].pc = "walk"
    /\ jog[t][j].todo = {}
    /\ jog' = [jog EXCEPT ![t][j].pc = "done"]
    /\ UNCHANGED <<extVars, ctlVars, lomacks, mu, filterGFN, fsobj, rlock, snd, wire, ackwire, stats, handed>>

ackInsert_skipped(q, o) == q

\* lomack.q[lom.Uname()] = lom
ackInsert(q, o) == q \cup {o}

\* send: lomack.mu.Lock(); lomack.q[lom.Uname()] = lom; lomack.mu.Unlock()
send_insert(t, c) ==
    /\ snd[t][c].pc = "lock"
    /\ ~mu[t][Hkey(snd[t][c].lom)]
    /\ lomacks' = [lomacks EXCEPT ![t] = ackInsert(@, snd[t][c].lom)]
    /\ snd' = [snd EXCEPT ![t][c].pc = "sendv"]
    /\ UNCHANGED <<extVars, ctlVars, mu, filterGFN, fsobj, rlock, jog, wire, ackwire, stats, handed>>

lomUnlock_skipped(n) == n

\* lom.Unlock(false): one shared lock less on the object
lomUnlock(n) == n - 1

sendFailed_kept(q, o) == q

\* the Ack table after a synchronous SendV error: delete(lomack.q, lom.Uname())
sendFailed(q, o) == q \ {o}

\* send: streams.SendV(hdr, file, rj.objSentCallback, lom, tsi)
send_SendV(t, c) ==
    LET o == snd[t][c].lom
        m == [src |-> t, dst |-> snd[t][c].dst, obj |-> o, cb |-> TRUE, rx |-> "pending",
              waited |-> FALSE]
    IN
    /\ snd[t][c].pc = "sendv"
    /\ IF reb[t].streams # "open"
       THEN \* reb.streams is nil
            /\ snd' = [snd EXCEPT ![t][c].pc = "panic"]
            /\ UNCHANGED <<wire, lomacks, rlock, nfault, handed>>
       ELSE \/ /\ NoFault
               /\ wire' = wire \cup {m}
               /\ handed' = [handed EXCEPT ![t] = @ \cup {o}]
               /\ snd' = [snd EXCEPT ![t][c].pc = "ret_ok"]
               /\ UNCHANGED <<lomacks, rlock>>
            \/ /\ Fault     \* SendV failed; its err is local to the if statement,
               /\ ~mu[t][Hkey(o)]      \* so that send returns nil after rerr
               /\ lomacks' = [lomacks EXCEPT ![t] = sendFailed(@, o)]
               /\ rlock' = [rlock EXCEPT ![t][o] = lomUnlock(@)]
               /\ snd' = [snd EXCEPT ![t][c].pc = "ret_nil"]
               /\ UNCHANGED <<wire, handed>>
    /\ UNCHANGED <<extVars, smapowner, env, reb, marker, xentry, xact, md,
                   mu, filterGFN, fsobj, jog, ackwire, stats>>

\* the message leaves the wire once sent back and received
Settle(w) == {m \in w : m.cb \/ m.rx # "done"}

addTxRebCount_skipped(n) == n

\* stats.NamedVal64{stats.TxRebCount, 1}
addTxRebCount(n) == n + 1

\* globalRebJogger.objSentCallback: lom.Unlock(false); on success the Tx counters
objSentCallback(t, m) ==
    /\ m \in wire /\ m.src = t /\ m.cb
    /\ rlock' = [rlock EXCEPT ![t][m.obj] = lomUnlock(@)]
    /\ \/ /\ NoFault
          /\ wire' = Settle((wire \ {m}) \cup {[m EXCEPT !.cb = FALSE]})
          /\ stats' = [stats EXCEPT ![t].tx = addTxRebCount(@)]
       \/ /\ Fault     \* the transmission failed: nothing is delivered
          /\ m.rx = "pending"
          /\ wire' = wire \ {m}
          /\ UNCHANGED stats
    /\ UNCHANGED <<extVars, smapowner, env, reb, marker, xentry, xact, md,
                   lomacks, mu, filterGFN, fsobj, jog, snd, ackwire, handed>>

(* --------------------------- receive handlers -------------------------- *)
notRebalancing_never(t) == FALSE

\* xactions.isRebalancing(ActGlobalReb): aborted || !running
notRebalancing(t) ==
    \/ xentry[t] = 0
    \/ xact[t][xentry[t]].aborted
    \/ xact[t][xentry[t]].finished

smapPublished_never(smap) == FALSE

\* smap := (*smapX)(reb.smap.Load()); smap != nil
smapPublished(smap) == smap # 0

\* recvObj: smap == nil, "waiting to start..."; the first time.Sleep(sleep)
recvObj_wait(d, m) ==
    /\ m \in wire /\ m.dst = d /\ m.rx = "pending" /\ ~m.waited
    /\ ~smapPublished(reb[d].smap)
    /\ wire' = (wire \ {m}) \cup {[m EXCEPT !.waited = TRUE]}
    /\ UNCHANGED <<extVars, ctlVars, lomacks, mu, filterGFN, fsobj, rlock, jog, snd, ackwire, stats, handed>>

\* recvObj: the last poll of the window (curwt reaches maxwt after it) still
\* finds reb.smap unset: "timed-out waiting to start, dropping"
recvObj_timeout(d, m) ==
    /\ m \in wire /\ m.dst = d /\ m.rx = "pending" /\ m.waited
    /\ ~smapPublished(reb[d].smap)
    /\ wire' = Settle((wire \ {m}) \cup {[m EXCEPT !.rx = "done"]})
    /\ UNCHANGED <<extVars, ctlVars, lomacks, mu, filterGFN, fsobj, rlock, jog, snd, ackwire, stats, handed>>

\* if stage := reb.stage.Load(); stage >= rebStageFin { reb.laterx.Store(true) }
lateReceive(stage, laterx) == IF stage >= rebStageFin THEN TRUE ELSE laterx

ackFollows_always(putOk, tsi) == tsi

\* recvObj returns after a putObject error and when the sender is not in the
\* Smap; else it goes on to the ACK
ackFollows(putOk, tsi) == putOk /\ tsi

\* recvObj up to the Rx counters: drain, or putObject and count
recvObj(d, m) ==
    LET done == Settle((wire \ {m}) \cup {[m EXCEPT !.rx = "done"]})
        put == Settle((wire \ {m}) \cup {[m EXCEPT !.rx = "put"]})
        tsi == m.src \in Members(reb[d].smap)     \* smap.GetTarget(tsid) != nil
    IN
    /\ m \in wire /\ m.dst = d /\ m.rx = "pending"
    /\ smapPublished(reb[d].smap)
    /\ IF notRebalancing(d)
       THEN \* drain the reader
            /\ wire' = done
            /\ UNCHANGED <<reb, fsobj, stats, nfault>>
       ELSE /\ SetReb(d, [reb[d] EXCEPT !.laterx = lateReceive(reb[d].stage, @)])
            /\ \/ /\ Fault     \* putObject failed (checksum mismatch)
                  /\ wire' = IF ackFollows(FALSE, tsi) THEN put ELSE done
                  /\ UNCHANGED <<fsobj, stats>>
               \/ /\ NoFault
                  /\ fsobj' = [fsobj EXCEPT ![d] = @ \cup {m.obj}]
                  /\ stats' = [stats EXCEPT ![d].rx = @ + 1]
                  /\ wire' = IF ackFollows(TRUE, tsi) THEN put ELSE done
    /\ UNCHANGED <<extVars, smapowner, env, marker, xentry, xact, md,
                   lomacks, mu, filterGFN, rlock, jog, snd, ackwire, handed>>

acksTheObject_always(stage) == TRUE

\* if stage < rebStageFinStreams && stage != rebStageInactive { acks.SendV }
acksTheObject(stage) == stage < rebStageFinStreams /\ stage # rebStageInactive

\* recvObj: the ACK
recvObj_ack(d, m) ==
    /\ m \in wire /\ m.dst = d /\ m.rx = "put"
    /\ wire' = Settle((wire \ {m}) \cup {[m EXCEPT !.rx = "done"]})
    /\ IF acksTheObject(reb[d].stage)
       THEN \/ /\ NoFault
               /\ ackwire' = ackwire \cup {[src |-> d, dst |-> m.src, obj |-> m.obj, st |-> "sent"]}
            \/ /\ Fault     \* acks.SendV returned an error: logged
               /\ UNCHANGED ackwire
       ELSE UNCHANGED <<ackwire, nfault>>
    /\ UNCHANGED <<extVars, smapowner, env, reb, marker, xentry, xact, md,
                   lomacks, mu, filterGFN, fsobj, rlock, jog, snd, stats, handed>>

\* recvAck: delete(lomack.q, lom.Uname()) under the shard's mutex
recvAck(t, a) ==
    /\ a \in ackwire /\ a.dst = t /\ a.st = "sent"
    /\ ~mu[t][Hkey(a.obj)]
    /\ lomacks' = [lomacks EXCEPT ![t] = @ \ {a.obj}]
    /\ handed' = [handed EXCEPT ![t] = @ \ {a.obj}]
    /\ ackwire' = (ackwire \ {a}) \cup {[a EXCEPT !.st = "deleted"]}
    /\ UNCHANGED <<extVars, ctlVars, mu, filterGFN, fsobj, rlock, jog, snd, wire, stats>>

\* recvAck: lom.Lock(true); lom.Remove(); lom.Unlock(true)
recvAck_remove(t, a) ==
    /\ a \in ackwire /\ a.dst = t /\ a.st = "deleted"
    /\ rlock[t][a.obj] = 0
    /\ ackwire' = ackwire \ {a}
    /\ \/ /\ NoFault
          /\ fsobj' = [fsobj EXCEPT ![t] = @ \ {a.obj}]
       \/ /\ Fault      \* lom.Remove() failed: logged
          /\ a.obj \in fsobj[t]
          /\ UNCHANGED fsobj
    /\ UNCHANGED <<extVars, smapowner, env, reb, marker, xentry, xact, md,
                   lomacks, mu, filterGFN, rlock, jog, snd, wire, stats, handed>>

(* ----------------------------- retransmit ------------------------------ *)
\* the closure aborted() of retransmit
retxAborted(t, i) == Aborted(t, i) \/ reb[t].smap # smapowner[t]

retransmit(t, i) ==
    /\ md[t][i].pc = "retransmit"
    /\ SetMd(t, i, [md[t][i] EXCEPT !.cnt = 0, !.shard = 1,
                      !.pc = IF retxAborted(t, i) THEN "retx_ret" ELSE "retx_lock"])
    /\ UNCHANGED <<extVars, smapowner, env, reb, marker, xentry, xact, nfault, dataVars>>

\* for _, lomack := range reb.lomAcks() { lomack.mu.Lock()
retransmit_lock(t, i) ==
    LET k == md[t][i].shard IN
    /\ md[t][i].pc = "retx_lock"
    /\ ~mu[t][k]
    /\ mu' = [mu EXCEPT ![t][k] = TRUE]
    /\ SetMd(t, i, [md[t][i] EXCEPT !.pc = "retx_visit",
                      !.todo = {o \in lomacks[t] : Hkey(o) = k}])
    /\ UNCHANGED <<extVars, smapowner, env, reb, marker, xentry, xact, nfault,
                   lomacks, filterGFN, fsobj, rlock, jog, snd, wire, ackwire, stats, handed>>

\* t.lookupRemoteSingle(lom, tsi): the HEAD probe finds the object at tsi
lookupRemoteSingle(o, tsi) == o \in fsobj[tsi]


\* delete(lomack.q, uname) of retransmit
ackDrop(q, o) == q \ {o}

\* one entry of the shard: lom.Load and lom.Exists drop it, or the HEAD
\* request for it goes to its home
retransmit_visit(t, i) ==
    /\ md[t][i].pc = "retx_visit"
    /\ \E o \in md[t][i].todo :
        LET next == [md[t][i] EXCEPT !.todo = @ \ {o}]
            drop == [lomacks EXCEPT ![t] = ackDrop(@, o)]
        IN
        IF o \notin fsobj[t]
        THEN /\ lomacks' = drop
             /\ SetMd(t, i, next)
             /\ NoFault
        ELSE \/ /\ Fault     \* lom.Load(false) failed
                /\ lomacks' = drop
                /\ SetMd(t, i, next)
             \/ /\ NoFault
                /\ SetMd(t, i, [next EXCEPT !.pc = "retx_probe", !.lom = o])
                /\ UNCHANGED lomacks
    /\ UNCHANGED <<extVars, smapowner, env, reb, marker, xentry, xact,
                   mu, filterGFN, fsobj, rlock, jog, snd, wire, ackwire, stats, handed>>

\* the answer of the HEAD probe: drop the entry, or resend the object
retransmit_probe(t, i) ==
    LET o == md[t][i].lom
        tsi == HrwTarget(o, reb[t].smap)
        next == [md[t][i] EXCEPT !.lom = "none"]
    IN
    /\ md[t][i].pc = "retx_probe"
    /\ IF lookupRemoteSingle(o, tsi)
       THEN /\ lomacks' = [lomacks EXCEPT ![t] = ackDrop(@, o)]
            /\ SetMd(t, i, [next EXCEPT !.pc = "retx_visit"])
            /\ UNCHANGED <<snd, rlock, nfault>>
       ELSE /\ sendCall(t, "retx", o, tsi)
            /\ SetMd(t, i, [next EXCEPT !.pc = "retx_sending"])
            /\ UNCHANGED lomacks
    /\ UNCHANGED <<extVars, smapowner, env, reb, marker, xentry, xact,
                   mu, filterGFN, fsobj, jog, wire, ackwire, stats, handed>>

\* if err := rj.send(lom, tsi); err == nil { cnt++ }; if aborted() { Unlock; return 0 }
retransmit_sent(t, i) ==
    LET k == md[t][i].shard
        c == IF errIsNil(snd[t]["retx"].pc) THEN md[t][i].cnt + 1 ELSE md[t][i].cnt
    IN
    /\ md[t][i].pc = "retx_sending"
    /\ snd[t]["retx"].pc \in SendReturns
    /\ snd' = [snd EXCEPT ![t]["retx"] = snd0]
    /\ IF retxAborted(t, i)
       THEN /\ mu' = [mu EXCEPT ![t][k] = FALSE]
            /\ SetMd(t, i, [md[t][i] EXCEPT !.cnt = 0, !.todo = {}, !.pc = "retx_ret"])
       ELSE /\ SetMd(t, i, [md[t][i] EXCEPT !.cnt = c, !.pc = "retx_visit"])
            /\ UNCHANGED mu
    /\ UNCHANGED <<extVars, smapowner, env, reb, marker, xentry, xact, nfault,
                   lomacks, filterGFN, fsobj, rlock, jog, wire, ackwire, stats, handed>>

\* lomack.mu.Unlock(); if aborted() { return 0 }; the next shard, or return cnt
retransmit_unlock(t, i) ==
    LET k == md[t][i].shard IN
    /\ md[t][i].pc = "retx_visit"
    /\ md[t][i].todo = {}
    /\ mu' = [mu EXCEPT ![t][k] = FALSE]
    /\ SetMd(t, i, IF retxAborted(t, i) THEN [md[t][i] EXCEPT !.cnt = 0, !.pc = "retx_ret"]
                   ELSE IF k = NShards THEN [md[t][i] EXCEPT !.pc = "retx_ret"]
                   ELSE [md[t][i] EXCEPT !.shard = k + 1, !.pc = "retx_lock"])
    /\ UNCHANGED <<extVars, smapowner, env, reb, marker, xentry, xact, nfault,
                   lomacks, filterGFN, fsobj, rlock, jog, snd, wire, ackwire, stats, handed>>

\* the GFN path served an object of this target to a neighbor: filterGFN.Insert
gfnInsert(t, o) ==
    /\ reb[t].stage \in {rebStageInit, rebStageTraverse}
    /\ o \in fsobj[t] /\ o \notin filterGFN[t]
    /\ filterGFN' = [filterGFN EXCEPT ![t] = @ \cup {o}]
    /\ UNCHANGED <<extVars, ctlVars, lomacks, mu, fsobj, rlock, jog, snd, wire, ackwire, stats, handed>>

(* --------------------------- specifications ---------------------------- *)
\* the coordinator of target t: runGlobalReb from the call to the return
Coordinator(t) ==
    \E i \in Inv :
        \/ runGlobalReb(t, i)
        \/ serialize_select(t, i)
        \/ serialize_check(t, i)
        \/ globalRebInit(t, i)
        \/ globalRebInit_marker(t, i)
        \/ globalRebInit_publish(t, i)
        \/ globalRebSyncAndRun(t, i)
        \/ globalRebRun(t, i)
        \/ globalRebRun_wait(t, i)
        \/ globalRebWaitAck(t, i)
        \/ globalRebWaitAck_poll(t, i)
        \/ globalRebWaitAck_sync(t, i)
        \/ retransmit(t, i)
        \/ retransmit_lock(t, i)
        \/ retransmit_unlock(t, i)
        \/ globalRebWaitAck_next(t, i)
        \/ runGlobalReb_fin(t, i)
        \/ runGlobalReb_finwait(t, i)
        \/ globalRebFini_loop(t, i)
        \/ globalRebFini_rm(t, i)
        \/ globalRebFini_end(t, i)
        \/ globalRebFini_done(t, i)
        \/ globalRebFini_release(t, i)

\* the EC sub-phase of the coordinator
CoordinatorEC(t) == \E i \in Inv : globalRebRunEC(t, i) \/ globalRebRunEC_wait(t, i)

\* one target with nothing to move: concurrent and successive calls of runGlobalReb,
\* Smap versions 1 and 2, external aborts
InitSer ==
    \E ec \in BOOLEAN :
        InitWith([t \in Targets |-> IF t = 1 THEN 1 ELSE 0],
                 [vcap |-> 2, ec |-> ec, gcap |-> MaxG, lag |-> 1, multiplier |-> 1, objs |-> {}],
                 [t \in Targets |-> {}], NInv, 0)

NextSer ==
    \/ Coordinator(1)
    \/ CoordinatorEC(1)
    \/ \E j \in Joggers : jog_done(1, j)
    \/ SmapUpdate(1)
    \/ UserAbort(1)

SpecSer == InitSer /\ [][NextSer]_vars

\* the data path of target t: joggers, send, the stream callbacks and handlers
DataPath(t) ==
    \/ \E j \in Joggers : walk(t, j) \/ walk_sent(t, j) \/ jog_done(t, j)
    \/ \E c \in Callers : send_insert(t, c) \/ send_SendV(t, c)
    \/ \E m \in wire : objSentCallback(t, m) \/ recvObj(t, m) \/ recvObj_ack(t, m)
    \/ \E a \in ackwire : recvAck(t, a) \/ recvAck_remove(t, a)
    \/ \E i \in Inv : retransmit_visit(t, i) \/ retransmit_probe(t, i) \/ retransmit_sent(t, i)

\* a receive of target t gives up waiting for the target to start
StartTimeout(t) == \E m \in wire : recvObj_wait(t, m) \/ recvObj_timeout(t, m)

\* two targets on Smap version 2, one call of runGlobalReb each; x is misplaced
\* on target 1 (its home is target 2), y is at its home; up to MaxFaults I/O errors
InitReb ==
    InitWith([t \in Targets |-> IF t = 3 THEN 0 ELSE 2],
             [vcap |-> 2, ec |-> FALSE, gcap |-> 1, lag |-> 0, multiplier |-> 1, objs |-> {"x", "y"}],
             [t \in Targets |-> IF t = 1 THEN {"x", "y"} ELSE {}], 1, 0)

NextReb ==
    \/ \E t \in {1, 2} : Coordinator(t) \/ DataPath(t) \/ StartTimeout(t)

\* every enabled step of some goroutine is eventually taken
SpecReb == InitReb /\ [][NextReb]_vars /\ WF_vars(NextReb)

\* what the rebalance of SpecReb can leave behind on a target
doneManager ==
    [stage |-> rebStageDone, smap |-> 2, globRebID |-> 1, laterx |-> FALSE,
     semaCh |-> 1, streams |-> "nil", acks |-> "closed"]
doneXact == [aborted |-> FALSE, finished |-> TRUE, smapVersion |-> 2, exists |-> TRUE]

\* targets 1 and 2 have completed the rebalance on Smap version 2 (a state
\* SpecReb reaches): x was sent to target 2 and stored there, target 1 dropped
\* the entry after the HEAD probe, the ACK of target 2 is still on its way
AfterRebV2 ==
    /\ \A t \in {1, 2} : reb[t] = doneManager /\ xentry[t] = 1 /\ xact[t][1] = doneXact
    /\ \A t \in {1, 2} : md[t][1] = Ret("done")
    /\ \A t \in Targets : ~marker[t] /\ lomacks[t] = {} /\ filterGFN[t] = {}
    /\ \A t \in Targets : \A k \in Shards : ~mu[t][k]
    /\ \A t \in Targets : \A o \in Objects : rlock[t][o] = 0
    /\ fsobj = [t \in Targets |-> IF t = 1 THEN {"x", "y"} ELSE IF t = 2 THEN {"x"} ELSE {}]
    /\ jog = [t \in Targets |-> [j \in Joggers |-> jog0]]
    /\ snd = [t \in Targets |-> [c \in Callers |-> snd0]]
    /\ wire = {}
    /\ ackwire = {[src |-> 2, dst |-> 1, obj |-> "x", st |-> "sent"]}
    /\ stats = [t \in Targets |-> [tx |-> IF t = 1 THEN 1 ELSE 0, rx |-> IF t = 2 THEN 1 ELSE 0]]
    /\ handed = [t \in Targets |-> IF t = 1 THEN {"x"} ELSE {}]

\* the cluster after the rebalance on version 2, when target 3 has joined:
\* targets 2 and 3 have Smap version 3 and get one call of runGlobalReb each,
\* target 1 gets none; the home of x is target 3 now
InitChain ==
    /\ smapowner = [t \in Targets |-> IF t = 1 THEN 2 ELSE 3]
    /\ env = [vcap |-> 3, ec |-> FALSE, gcap |-> 2, lag |-> 0, multiplier |-> 1, objs |-> {"x", "y"}]
    /\ reb = [t \in Targets |-> IF t = 3 THEN rebManager0 ELSE doneManager]
    /\ marker = [t \in Targets |-> FALSE]
    /\ xentry = [t \in Targets |-> IF t = 3 THEN 0 ELSE 1]
    /\ xact = [t \in Targets |-> [i \in Inv |-> IF t # 3 /\ i = 1 THEN doneXact ELSE xact0]]
    /\ md = [t \in Targets |-> [i \in Inv |->
                IF t # 3 /\ i = 1 THEN Ret("done")
                ELSE IF (t = 2 /\ i = 2) \/ (t = 3 /\ i = 1) THEN md0 ELSE Ret("none")]]
    /\ nfault = 0
    /\ lomacks = [t \in Targets |-> {}]
    /\ mu = [t \in Targets |-> [k \in Shards |-> FALSE]]
    /\ filterGFN = [t \in Targets |-> {}]
    /\ fsobj = [t \in Targets |-> IF t = 1 THEN {"x", "y"} ELSE IF t = 2 THEN {"x"} ELSE {}]
    /\ rlock = [t \in Targets |-> [o \in Objects |-> 0]]
    /\ jog = [t \in Targets |-> [j \in Joggers |-> jog0]]
    /\ snd = [t \in Targets |-> [c \in Callers |-> snd0]]
    /\ wire = {}
    /\ ackwire = {[src |-> 2, dst |-> 1, obj |-> "x", st |-> "sent"]}
    /\ stats = [t \in Targets |-> [tx |-> IF t = 1 THEN 1 ELSE 0, rx |-> IF t = 2 THEN 1 ELSE 0]]
    /\ handed = [t \in Targets |-> IF t = 1 THEN {"x"} ELSE {}]
    /\ AfterRebV2
    /\ LocalIdle
    /\ SubIdle

NextChain ==
    \/ \E t \in Targets : Coordinator(t) \/ DataPath(t) \/ StartTimeout(t)
    \/ UserAbort(2)

SpecChain == InitChain /\ [][NextChain]_vars

(* ------------------------------ properties ----------------------------- *)
\* invocation i of target t is between a successful globalRebPrecheck and the
\* end of globalRebFini
InRun(t, i) == md[t][i].pc \notin {"idle", "serialize", "serialize_chk", "ret", "panic"}

\* C3: on one target at most one invocation of runGlobalReb is between its
\* admission by serialize and the release of the slot at the end of globalRebFini
C3_MutualExclusion ==
    \A t \in Targets : \A i, k \in Inv : InRun(t, i) /\ InRun(t, k) => i = k

\* a run is in progress while another invocation polls the slot without getting it
C3_Witness ==
    \E t \in Targets : \E i, k \in Inv :
        /\ i # k /\ InRun(t, i)
        /\ md[t][k].pc = "serialize_chk" /\ ~md[t][k].canRun

\* what serialize and Init would change: stage, marker, Ack table, snapshot, streams
RunState(t) ==
    <<reb[t].stage, reb[t].smap, reb[t].globRebID, reb[t].streams, reb[t].acks,
      marker[t], lomacks[t], xentry[t], xact[t]>>

\* invocation k has received the token of semaCh and not yet sent it back
HoldsSlot(t, k) == InRun(t, k) \/ (md[t][k].pc = "serialize_chk" /\ md[t][k].canRun)

C5_PingFailure ==
    [][\A t \in Targets : \A i \in Inv :
        (md[t][i].pc = "idle" /\ md'[t][i].pc # "idle" /\ nfault' # nfault)
        => /\ md'[t][i] = Ret("pingfail")
           /\ UNCHANGED <<smapowner, reb, marker, xentry, xact, dataVars>>
           /\ \A k \in Inv \ {i} : md'[t][k] = md[t][k]]_vars

\* a ping failed while a run was in progress on the target
C5_Witness ==
    \E t \in Targets : \E i, k \in Inv :
        md[t][i].res = "pingfail" /\ InRun(t, k) /\ reb[t].semaCh = 0

STAGES_WITH_MARKER ==
    {rebStageInit, rebStageTraverse, rebStageECNameSpace, rebStageWaitAck, rebStageFin}

HoldsMarker(t, i) ==
    /\ md[t][i].pmarker
    /\ md[t][i].pc \in {"init_publish", "sync", "ec", "ec_wait", "run", "joggers", "waitack",
                        "wack_poll", "wack_sync", "retransmit", "retx_lock", "retx_visit",
                        "retx_probe", "retx_sending", "retx_ret", "fin", "fin_wait", "fini_loop",
                        "fini_rm"}

C7_AbortKeepsMarker ==
    [][\A t \in Targets : \A i \in Inv :
        (/\ md[t][i].pc = "fini_done" /\ md'[t][i].pc = "release"
         /\ md[t][i].pmarker /\ Aborted(t, i))
        => marker'[t]]_vars

\* C7 amended: a run whose abort was seen by globalRebFini (before the
\* quiescence loop or by one of its abortedAfter checks) still has the marker
\* it created when it stores stage DONE
C7_ObservedAbortKeepsMarker ==
    [][\A t \in Targets : \A i \in Inv :
        (/\ md[t][i].pc = "fini_done" /\ md'[t][i].pc = "release"
         /\ md[t][i].pmarker /\ md[t][i].aborted)
        => marker'[t]]_vars

C7_Witness ==
    \E t \in Targets : \E i \in Inv :
        /\ md[t][i].pc = "release" /\ md[t][i].pmarker /\ md[t][i].aborted
        /\ reb[t].stage = rebStageDone /\ marker[t]

\* the run of target t on membership M went through Fin and was not aborted
CompletedFin(t, M) ==
    /\ reb[t].stage = rebStageDone /\ reb[t].smap = M
    /\ xentry[t] # 0
    /\ xact[t][xentry[t]].finished /\ ~xact[t][xentry[t]].aborted

\* C1 as stated: once every member of M has completed Fin for its run on M
\* (and nothing is in flight), every stored object is held only by its home
C1_Convergence ==
    \A M \in 1..Cardinality(Targets) :
        (/\ \A t \in Members(M) : CompletedFin(t, M)
         /\ wire = {} /\ ackwire = {})
        => \A t \in Targets : \A o \in fsobj[t] : t = HrwTarget(o, M)

\* recvAck of target t removes its copy of the object acknowledged by a
removesAcked(t, a) ==
    /\ a \in ackwire /\ a.dst = t /\ a.st = "deleted" /\ a \notin ackwire'
    /\ a.obj \in fsobj[t] /\ a.obj \notin fsobj'[t]

\* C2 as stated: every object is stored on at least one target, and recvAck
\* removes the local copy only of an object that the acking peer still holds
C2_AckingPeerStillHolds ==
    /\ [](\A o \in env.objs : \E t \in Targets : o \in fsobj[t])
    /\ [][\A t \in Targets : \A a \in ackwire :
            removesAcked(t, a) => a.obj \in fsobj[a.src]]_vars

\* C2 amended: every object is stored on at least one target, and recvAck
\* removes the local copy only of an object that another target holds: the
\* acking peer, or the target the peer has moved it on to
C2_NoObjectLost ==
    /\ [](\A o \in env.objs : \E t \in Targets : o \in fsobj[t])
    /\ [][\A t \in Targets : \A a \in ackwire :
            removesAcked(t, a) => \E p \in Targets \ {t} : a.obj \in fsobj[p]]_vars

\* a target has removed its copy after the ACK; the object is at its home only
C2_Witness ==
    \E o \in env.objs : \E t \in Targets :
        /\ o \notin handed[t] /\ o \notin fsobj[t] /\ stats[t].tx > 0
        /\ \A p \in Targets : o \in fsobj[p] <=> p = HrwTarget(o, env.vcap)

\* C8 as stated: a name is a key of the Ack table iff the object was handed to
\* the object stream by send and no ACK for it has been processed since
C8_KeyIffHanded ==
    \A t \in Targets : lomacks[t] = handed[t]

\* a send of o has inserted the key and is about to call SendV
sendPending(t, o) ==
    \E c \in Callers : snd[t][c].lom = o /\ snd[t][c].pc = "sendv"

\* C8 amended: a name is a key of the Ack table only if send has inserted it
\* and either that send has yet to call SendV or the object was handed to the
\* object stream and no ACK for it has been processed since
C8_KeyOnlyIfSent ==
    \A t \in Targets : \A o \in lomacks[t] : o \in handed[t] \/ sendPending(t, o)

\* the key of an object that is on the wire, its ACK not yet sent
C8_Witness ==
    \E t \in Targets : \E m \in wire :
        m.src = t /\ m.rx = "put" /\ m.obj \in lomacks[t] /\ m.obj \in handed[t]

\* the xaction of the latest run of target t is aborted
RunAborted(t) == xentry[t] # 0 /\ xact[t][xentry[t]].aborted

\* C9 as stated: an entry of the Ack table of a run that is not aborted is
\* eventually deleted
C9_EntryEventuallyDeleted ==
    \A t \in Targets : \A o \in Objects :
        (o \in lomacks[t]) ~> (o \notin lomacks[t] \/ RunAborted(t))

\* C10 as stated: retransmit returned zero and the xaction is not aborted only
\* if every Ack shard is empty
C10_ZeroMeansQuiescent ==
    \A t \in Targets : \A i \in Inv :
        (md[t][i].pc = "retx_ret" /\ md[t][i].cnt = 0 /\ ~Aborted(t, i)) => lomacks[t] = {}

\* the resend of retransmit hands an object to the object stream
resends(t) ==
    /\ snd[t]["retx"].pc = "sendv" /\ snd'[t]["retx"].pc = "ret_ok"
    /\ wire' # wire

\* C11 as stated: when ACKs are never delivered, the cycles of WaitAck and
\* retransmit still empty the Ack table (unless the run is aborted), and
\* retransmit never sends an object to a destination that has persisted it
C11_RetransmitSafety ==
    /\ \A t \in Targets :
          (reb[t].stage = rebStageWaitAck /\ lomacks[t] # {})
              ~> (lomacks[t] = {} \/ RunAborted(t))
    /\ [][\A t \in Targets :
            resends(t) => snd[t]["retx"].lom \notin fsobj[snd[t]["retx"].dst]]_vars

\* TxRebCount and RxRebCount summed over the targets
SumTx == stats[1].tx + stats[2].tx + stats[3].tx
SumRx == stats[1].rx + stats[2].rx + stats[3].rx

\* every target that has joined is at stage DONE, no call of runGlobalReb is
\* under way, no object and no ACK is in flight
Quiescent ==
    /\ wire = {} /\ ackwire = {}
    /\ \A t \in Targets : smapowner[t] > 0 => reb[t].stage = rebStageDone
    /\ \A t \in Targets : \A i \in Inv : md[t][i].pc \in {"idle", "ret"}

Outcomes == {<<{}, {"x"}>>, <<{"x"}, {"x"}>>, <<{"x"}, {}>>}

\* targets 1 and 2 have completed the rebalance on Smap version 2 and nothing
\* is in flight (states SpecReb reaches)
AfterRebSame(left, home) ==
    /\ \A t \in {1, 2} : reb[t] = doneManager /\ xentry[t] = 1 /\ xact[t][1] = doneXact
    /\ \A t \in {1, 2} : md[t][1] = Ret("done")
    /\ \A t \in Targets : ~marker[t] /\ lomacks[t] = {} /\ filterGFN[t] = {}
    /\ \A t \in Targets : \A k \in Shards : ~mu[t][k]
    /\ \A t \in Targets : \A o \in Objects : rlock[t][o] = 0
    /\ fsobj = [t \in Targets |-> IF t = 1 THEN {"y"} \cup left ELSE IF t = 2 THEN home ELSE {}]
    /\ jog = [t \in Targets |-> [j \in Joggers |-> jog0]]
    /\ snd = [t \in Targets |-> [c \in Callers |-> snd0]]
    /\ wire = {} /\ ackwire = {}
    /\ stats = [t \in Targets |-> [tx |-> IF t = 1 THEN Cardinality(home) ELSE 0,
                                   rx |-> IF t = 2 THEN Cardinality(home) ELSE 0]]
    /\ handed = [t \in Targets |-> IF t = 1 THEN left \cap home ELSE {}]

\* the cluster after the rebalance on version 2: targets 1 and 2 get one more
\* call of runGlobalReb each on the same Smap, with rebalance ID 1 or 2; the
\* run of target 2 may be aborted from outside
InitRerun ==
    \E out \in Outcomes :
      LET left == out[1]
          home == out[2]
      IN
        /\ smapowner = [t \in Targets |-> IF t = 3 THEN 0 ELSE 2]
        /\ env = [vcap |-> 2, ec |-> FALSE, gcap |-> 2, lag |-> 0, multiplier |-> 1, objs |-> {"x", "y"}]
        /\ reb = [t \in Targets |-> IF t = 3 THEN rebManager0 ELSE doneManager]
        /\ marker = [t \in Targets |-> FALSE]
        /\ xentry = [t \in Targets |-> IF t = 3 THEN 0 ELSE 1]
        /\ xact = [t \in Targets |-> [i \in Inv |-> IF t # 3 /\ i = 1 THEN doneXact ELSE xact0]]
        /\ md = [t \in Targets |-> [i \in Inv |->
                    IF t # 3 /\ i = 1 THEN Ret("done")
                    ELSE IF t # 3 /\ i = 2 THEN md0 ELSE Ret("none")]]
        /\ nfault = 0
        /\ lomacks = [t \in Targets |-> {}]
        /\ mu = [t \in Targets |-> [k \in Shards |-> FALSE]]
        /\ filterGFN = [t \in Targets |-> {}]
        /\ fsobj = [t \in Targets |-> IF t = 1 THEN {"y"} \cup left
                                      ELSE IF t = 2 THEN home ELSE {}]
        /\ rlock = [t \in Targets |-> [o \in Objects |-> 0]]
        /\ jog = [t \in Targets |-> [j \in Joggers |-> jog0]]
        /\ snd = [t \in Targets |-> [c \in Callers |-> snd0]]
        /\ wire = {}
        /\ ackwire = {}
        /\ stats = [t \in Targets |-> [tx |-> IF t = 1 THEN Cardinality(home) ELSE 0,
                                       rx |-> IF t = 2 THEN Cardinality(home) ELSE 0]]
        /\ handed = [t \in Targets |-> IF t = 1 THEN left \cap home ELSE {}]
        /\ LocalIdle
        /\ SubIdle
        /\ AfterRebSame(left, home)

NextRerun ==
    \/ \E t \in {1, 2} : Coordinator(t) \/ DataPath(t)
    \/ UserAbort(2)

SpecRerun == InitRerun /\ [][NextRerun]_vars

\* the (sender, destination, object) triples of the messages of the object stream
Sent(w) == {<<m.src, m.dst, m.obj>> : m \in w}

\* C13 as stated: in a further run on the same membership after a run that
\* every target completed without abort, no target hands an object to the
\* object stream, neither from a jogger nor from retransmit
C13_RerunSendsNothing ==
    [][Sent(wire') \subseteq Sent(wire)]_vars

\* target 1 on Smap version 2 with x misplaced gets two calls of runGlobalReb
\* while the primary publishes version 3; targets 2 and 3 have not been called
\* yet: what target 1 sends them waits for their start and is dropped
InitMove ==
    InitWith([t \in Targets |-> IF t = 3 THEN 0 ELSE 2],
             [vcap |-> 3, ec |-> FALSE, gcap |-> MaxG, lag |-> 0, multiplier |-> 1, objs |-> {"x", "y"}],
             [t \in Targets |-> IF t = 1 THEN {"x", "y"} ELSE {}], NInv, 0)

NextMove ==
    \/ Coordinator(1)
    \/ \E j \in Joggers : walk(1, j) \/ walk_sent(1, j) \/ jog_done(1, j)
    \/ \E c \in Callers : send_insert(1, c) \/ send_SendV(1, c)
    \/ \E m \in wire : objSentCallback(1, m)
    \/ \E i \in Inv : retransmit_visit(1, i) \/ retransmit_probe(1, i) \/ retransmit_sent(1, i)
    \/ \E t \in {2, 3} : StartTimeout(t)
    \/ SmapUpdate(1)

SpecMove == InitMove /\ [][NextMove]_vars

\* jogger j of target t takes a walk step over objects that are all stored
\* here with their home elsewhere, while the Smap of the target is newer than
\* the jogger's
walkSeesNewer(t, j) ==
    LET i == jog[t][j].xreb IN
    /\ jog[t][j].pc = "walk" /\ jog'[t][j] # jog[t][j]
    /\ jog[t][j].todo # {}
    /\ \A o \in jog[t][j].todo : o \in fsobj[t] /\ ~isLocal(t, o, md[t][i].smap)
    /\ ~Aborted(t, i) /\ ~Finished(t, i)
    /\ smapowner[t] > md[t][i].smap

\* retransmit of run i evaluates its closure aborted() while the Smap of the
\* target differs from the snapshot and the xaction is not aborted
retxSeesNewer(t, i) ==
    /\ \/ md[t][i].pc = "retransmit"
       \/ md[t][i].pc = "retx_visit" /\ md[t][i].todo = {}
    /\ md'[t][i] # md[t][i]
    /\ reb[t].smap # smapowner[t]
    /\ ~Aborted(t, i)

serializeSeesOlder(t, k) ==
    /\ md[t][k].pc = "serialize_chk" /\ md'[t][k] # md[t][k]
    /\ ~md[t][k].canRun
    /\ smapowner[t] <= md[t][k].smap
    /\ reb[t].globRebID # md[t][k].globRebID
    /\ xentry[t] # 0
    /\ xact[t][xentry[t]].smapVersion < md[t][k].smap
    /\ ~xact[t][xentry[t]].finished

StagesAfter(s) ==
    CASE s = rebStageInactive -> {rebStageInit}
      [] s = rebStageInit -> {rebStageTraverse}
      [] s = rebStageTraverse -> {rebStageECNameSpace, rebStageWaitAck, rebStageFin}
      [] s = rebStageECNameSpace -> {rebStageWaitAck, rebStageFin}
      [] s = rebStageWaitAck -> {rebStageFin}
      [] s = rebStageFin -> {rebStageFinStreams}
      [] s = rebStageFinStreams -> {rebStageDone}
      [] s = rebStageDone -> {rebStageInit}

\* C15: the stage changes only along INIT, TRAVERSE, optionally EC_NAMESPACE,
\* WAIT_ACK, FIN, FIN_STREAMS, DONE (a stage is skipped only on the way to
\* FIN, and INIT follows only INACTIVE or DONE), and every change is made by
\* a step of the one invocation of runGlobalReb that holds the slot
C15_StageOrder ==
    [][\A t \in Targets :
        reb'[t].stage # reb[t].stage =>
            /\ reb'[t].stage \in StagesAfter(reb[t].stage)
            /\ \E i \in Inv :
                  /\ md'[t][i] # md[t][i]
                  /\ InRun(t, i)
                  /\ \A k \in Inv \ {i} : ~InRun(t, k) /\ md'[t][k] = md[t][k]]_vars

\* a run with the EC sub-phase has stored stage DONE and is about to release the slot
C15_Witness ==
    \E t \in Targets : \E i \in Inv :
        env.ec /\ md[t][i].pc = "release" /\ reb[t].stage = rebStageDone /\ stats[t].tx > 0

\* a receive handler of target d takes message m off the object stream (the
\* completion callback of the sender is the step that releases the LOM lock)
handles(d, m, st) ==
    /\ m \in wire /\ m.dst = d /\ m.rx = st
    /\ m \notin wire' /\ [m EXCEPT !.waited = TRUE] \notin wire'
    /\ rlock' = rlock

\* the global rebalance xaction of target d is registered and running
isRebalancing(d) ==
    xentry[d] # 0 /\ ~xact[d][xentry[d]].aborted /\ ~xact[d][xentry[d]].finished

C17_AckOnlyAfterPut ==
    [][\A d \in Targets :
        /\ stats'[d].rx # stats[d].rx =>
              \E m \in wire :
                  /\ handles(d, m, "pending") /\ nfault' = nfault
                  /\ m.obj \in fsobj'[d] /\ stats'[d].rx = stats[d].rx + 1
        /\ \A m \in wire :
              (handles(d, m, "pending") /\ [m EXCEPT !.rx = "put"] \in wire') =>
                  /\ nfault' = nfault /\ m.obj \in fsobj'[d]
                  /\ stats'[d].rx = stats[d].rx + 1
                  /\ m.src \in Members(reb[d].smap)
        /\ \A a \in ackwire' \ ackwire :
              (a.src = d /\ a.st = "sent") =>
                  /\ reb[d].stage # rebStageInactive /\ reb[d].stage < rebStageFinStreams
                  /\ \E m \in wire :
                        handles(d, m, "put") /\ m.obj = a.obj /\ m.src = a.dst
        /\ \A m \in wire :
              (handles(d, m, "pending") /\ nfault' # nfault) =>
                  /\ [m EXCEPT !.rx = "put"] \notin wire'
                  /\ UNCHANGED <<fsobj, stats, ackwire, lomacks>>]_vars

\* the ACK of an object that its sender still waits for is on the ACK stream,
\* the object persisted and counted at the receiver
C17_Witness ==
    \E a \in ackwire :
        /\ a.st = "sent" /\ a.obj \in fsobj[a.src] /\ stats[a.src].rx > 0
        /\ a.obj \in lomacks[a.dst]

\* C18: when recvObj handles an object while the global rebalance xaction of
\* the target is absent, finished or aborted, the object is discarded: nothing
\* is persisted, the Rx counters and laterx are unchanged and no ACK follows
C18_DiscardWhenNotRunning ==
    [][\A d \in Targets : \A m \in wire :
        (handles(d, m, "pending") /\ reb[d].smap # 0 /\ ~isRebalancing(d)) =>
            /\ UNCHANGED <<fsobj, stats, reb, ackwire>>
            /\ [m EXCEPT !.rx = "put"] \notin wire']_vars

\* an object was transmitted without any fault to a target that has its Smap
\* pointer set, and was neither stored nor counted there
C18_Witness ==
    /\ nfault = 0 /\ wire = {} /\ ackwire = {}
    /\ \E s, d \in Targets : \E o \in Objects :
          /\ stats[s].tx > stats[d].rx
          /\ o \in fsobj[s] /\ o \notin fsobj[d] /\ d = HrwTarget(o, reb[s].smap)
          /\ reb[d].smap # 0 /\ ~isRebalancing(d)

\* C19: every check of globalRebFini's loop that finds laterx set clears it
\* and resets the quiet counter to zero, every other check adds one; a receive
\* at stage FIN or later of a running xaction sets laterx; globalRebFini
\* removes the marker only when it has not seen the xaction aborted and the
\* counter has reached maxquiet, and closes the streams only then or when it
\* has seen the xaction aborted
C19_FinQuiescence ==
    [][\A t \in Targets :
        /\ \A i \in Inv :
            /\ (md[t][i].pc = "fini_loop" /\ md'[t][i].pc = "fini_loop"
                  /\ md'[t][i] # md[t][i]) =>
                  /\ md'[t][i].quiescent = (IF reb[t].laterx THEN 0
                                            ELSE md[t][i].quiescent + 1)
                  /\ ~reb'[t].laterx
            /\ (md[t][i].pc = "fini_loop" /\ md'[t][i].pc = "fini_rm") =>
                  md[t][i].aborted \/ md[t][i].quiescent = maxquiet
            /\ (md[t][i].pc = "fini_rm" /\ md'[t][i].pc # "fini_rm"
                  /\ marker[t] /\ ~marker'[t]) =>
                  ~md[t][i].aborted /\ md[t][i].quiescent = maxquiet
            /\ (md[t][i].pc = "fini_end" /\ md'[t][i].pc # "fini_end") =>
                  md[t][i].aborted \/ md[t][i].quiescent = maxquiet
        /\ \A m \in wire :
              (handles(t, m, "pending") /\ reb[t].smap # 0 /\ isRebalancing(t)
                 /\ reb[t].stage >= rebStageFin) => reb'[t].laterx
        /\ (marker[t] /\ ~marker'[t]) =>
              \E i \in Inv : md[t][i].pc = "fini_rm" /\ md'[t][i].pc = "fini_end"]_vars

\* a late receive has set laterx in the middle of the quiet count
C19_Witness ==
    \E t \in Targets : \E i \in Inv :
        /\ md[t][i].pc = "fini_loop" /\ ~md[t][i].aborted
        /\ md[t][i].quiescent \in 1..(maxquiet - 1)
        /\ reb[t].laterx /\ reb[t].stage = rebStageFin /\ stats[t].rx > 0

\* the rebalance of SpecReb while the GFN path of target 1 serves objects to
\* its neighbours and records them in the filter
InitGfn ==
    InitWith([t \in Targets |-> IF t = 3 THEN 0 ELSE 2],
             [vcap |-> 2, ec |-> FALSE, gcap |-> 1, lag |-> 0, multiplier |-> 1, objs |-> {"x", "y"}],
             [t \in Targets |-> IF t = 1 THEN {"x", "y"} ELSE {}], 1, 0)

NextGfn ==
    \/ \E t \in {1, 2} : Coordinator(t) \/ DataPath(t) \/ StartTimeout(t)
    \/ \E o \in Objects : gfnInsert(1, o)

SpecGfn == InitGfn /\ [][NextGfn]_vars /\ WF_vars(NextGfn)

\* the home of o in the Smap that target t has published (t itself before that)
homeOf(t, o) == IF reb[t].smap = 0 THEN t ELSE HrwTarget(o, reb[t].smap)

\* a jogger of target t is about to visit o, which is stored here with its
\* home elsewhere and absent there, and the GFN filter reports its key
skipsByGFN(t, o) ==
    LET j == Provider(o) IN
    /\ jog[t][j].pc = "walk" /\ o \in jog[t][j].todo
    /\ o \in fsobj[t] /\ o \in filterGFN[t]
    /\ homeOf(t, o) # t
    /\ o \notin fsobj[homeOf(t, o)]

\* C20 as stated: an object that the jogger skips because the GFN filter
\* reports its key, and that was never delivered, is eventually stored at its
\* home target (unless the run is aborted)
C20_SkippedIsDelivered ==
    \A t \in Targets : \A o \in Objects :
        skipsByGFN(t, o) ~> (o \in fsobj[homeOf(t, o)] \/ RunAborted(t))

(* ---------------------------- local resilver --------------------------- *)
\* the target that runs the local resilver
LT == 1
\* the mountpath an object belongs to by HRW (lom.ParsedFQN.MpathInfo of IsHRW)
HrwMpath(o) == IF o = "x" THEN 2 ELSE 1
\* lom.IsHRW of the file of o on mountpath mp
IsHRW(o, mp) == mp = HrwMpath(o)
\* lom.HasCopies
HasCopies(o) == o \in lenv.copies
\* cluster.HrwTarget(lom.Bck(), lom.Objname, &smap.Smap): 0 stands for the error
HrwTargetOrErr(o, v) == IF Members(v) = {} THEN 0 ELSE HrwTarget(o, v)

\* runLocalReb: renewLocalReb and one jogger per mountpath
runLocalReb ==
    /\ xlreb.pc = "none"
    /\ xlreb' = [xlreb EXCEPT !.pc = "wait"]
    /\ ljog' = [mp \in MPaths |-> [ljog0 EXCEPT !.pc = "walk"]]
    /\ UNCHANGED <<ctlVars, dataVars, subVars, lenv, mpfiles>>

\* wg.Wait() ... xreb.EndTime
runLocalReb_wait ==
    /\ xlreb.pc = "wait"
    /\ \A mp \in MPaths : ljog[mp].pc = "done"
    /\ xlreb' = [xlreb EXCEPT !.pc = "ret"]
    /\ UNCHANGED <<ctlVars, dataVars, subVars, lenv, mpfiles, ljog>>

\* the local resilver is aborted from outside
LocalAbort ==
    /\ xlreb.pc = "wait" /\ ~xlreb.aborted
    /\ xlreb' = [xlreb EXCEPT !.aborted = TRUE]
    /\ UNCHANGED <<ctlVars, dataVars, subVars, lenv, mpfiles, ljog>>

\* if rj.skipGlobMisplaced { ... if tsi.DaemonID != t.si.DaemonID { return nil } }
skipsGlobMisplaced(skip, tsi) == skip /\ tsi # 0 /\ tsi # LT

\* localRebJogger.walk up to the call of copyObject, for the next file of mp
localWalk(mp) ==
    /\ ljog[mp].pc = "walk"
    /\ \E o \in Objects :
        /\ <<o, mp>> \in mpfiles /\ o \notin ljog[mp].seen
        /\ LET tsi == HrwTargetOrErr(o, smapowner[LT])
               next == [ljog[mp] EXCEPT !.seen = @ \cup {o}]
           IN ljog' = [ljog EXCEPT ![mp] =
                  IF xlreb.aborted THEN [ljog[mp] EXCEPT !.pc = "done"]
                  ELSE IF skipsGlobMisplaced(lenv.skipGlobMisplaced, tsi) THEN next
                  ELSE IF IsHRW(o, mp) THEN next
                  ELSE [next EXCEPT !.pc = "copy", !.lom = o, !.tsi = tsi]]
    /\ UNCHANGED <<ctlVars, dataVars, subVars, lenv, mpfiles, xlreb>>

\* replicInfo.copyObject with localOnly: when it reports copied, the object has
\* a file on its HRW mountpath; the file it read stays
copyObject(files, o, copied) == IF copied THEN files \cup {<<o, HrwMpath(o)>>} ELSE files

removesSource_always(copied, err, hasCopies) == TRUE

\* if err != nil { return nil }; if !copied { return nil }; if lom.HasCopies() { return nil }
removesSource(copied, err, hasCopies) == ~err /\ copied /\ ~hasCopies

\* copied, err := ri.copyObject(lom, lom.Objname), and the three early returns
localWalk_copy(mp) ==
    /\ ljog[mp].pc = "copy"
    /\ \E copied, err \in BOOLEAN :
        LET o == ljog[mp].lom IN
        /\ mpfiles' = copyObject(mpfiles, o, copied)
        /\ ljog' = [ljog EXCEPT ![mp] =
               IF removesSource(copied, err, HasCopies(o))
               THEN [@ EXCEPT !.pc = "remove", !.copied = copied, !.err = err]
               ELSE [@ EXCEPT !.pc = "walk", !.lom = "none", !.tsi = 0]]
    /\ UNCHANGED <<ctlVars, dataVars, subVars, lenv, xlreb>>

\* lom.Lock(true); cmn.RemoveFile(lom.FQN) (which may fail); lom.Unlock(true)
localWalk_remove(mp) ==
    /\ ljog[mp].pc = "remove"
    /\ \E removed \in BOOLEAN :
        mpfiles' = IF removed THEN mpfiles \ {<<ljog[mp].lom, mp>>} ELSE mpfiles
    /\ ljog' = [ljog EXCEPT ![mp] = [ljog0 EXCEPT !.pc = "walk", !.seen = ljog[mp].seen]]
    /\ UNCHANGED <<ctlVars, dataVars, subVars, lenv, xlreb>>

\* fs.Walk has visited every file of the mountpath: jog returns
localJog_done(mp) ==
    /\ ljog[mp].pc = "walk"
    /\ \A o \in Objects : <<o, mp>> \in mpfiles => o \in ljog[mp].seen
    /\ ljog' = [ljog EXCEPT ![mp].pc = "done"]
    /\ UNCHANGED <<ctlVars, dataVars, subVars, lenv, mpfiles, xlreb>>

\* target 1 with an Smap of one, two or no targets; every object has a file on
\* one or two mountpaths; the resilver is called with or without
\* skipGlobMisplaced
InitLocal ==
    /\ \E v \in 0..2 : smapowner = [t \in Targets |-> IF t = LT THEN v ELSE 0]
    /\ env = [vcap |-> 2, ec |-> FALSE, gcap |-> 1, lag |-> 0, multiplier |-> 1, objs |-> {"x", "y"}]
    /\ reb = [t \in Targets |-> rebManager0]
    /\ marker = [t \in Targets |-> FALSE]
    /\ xentry = [t \in Targets |-> 0]
    /\ xact = [t \in Targets |-> [i \in Inv |-> xact0]]
    /\ md = [t \in Targets |-> [i \in Inv |-> Ret("none")]]
    /\ nfault = 0
    /\ lomacks = [t \in Targets |-> {}]
    /\ mu = [t \in Targets |-> [k \in Shards |-> FALSE]]
    /\ filterGFN = [t \in Targets |-> {}]
    /\ fsobj = [t \in Targets |-> IF t = LT THEN Objects ELSE {}]
    /\ rlock = [t \in Targets |-> [o \in Objects |-> 0]]
    /\ jog = [t \in Targets |-> [j \in Joggers |-> jog0]]
    /\ snd = [t \in Targets |-> [c \in Callers |-> snd0]]
    /\ wire = {}
    /\ ackwire = {}
    /\ stats = [t \in Targets |-> [tx |-> 0, rx |-> 0]]
    /\ handed = [t \in Targets |-> {}]
    /\ \E skip \in BOOLEAN : \E cp \in SUBSET Objects :
           lenv = [skipGlobMisplaced |-> skip, copies |-> cp]
    /\ \E fs \in SUBSET (Objects \X MPaths) :
           /\ \A o \in Objects : \E mp \in MPaths : <<o, mp>> \in fs
           /\ mpfiles = fs
    /\ xlreb = [pc |-> "none", aborted |-> FALSE]
    /\ ljog = [mp \in MPaths |-> ljog0]
    /\ SubIdle

NextLocal ==
    \/ runLocalReb
    \/ runLocalReb_wait
    \/ LocalAbort
    \/ SmapUpdate(LT)
    \/ \E mp \in MPaths : localWalk(mp) \/ localWalk_copy(mp) \/ localWalk_remove(mp) \/ localJog_done(mp)

SpecLocal == InitLocal /\ [][NextLocal]_vars

\* the joggers that are past the checks of walk for the file of o on mp
handling(o, mp) == ljog[mp].pc \in {"copy", "remove"} /\ ljog[mp].lom = o

\* C21: a file disappears from a mountpath only in a walk whose copyObject
\* reported copied without error, for an object without replicas; and the
\* files of an object change only in a walk of a file that is not at its HRW
\* mountpath and (with skipGlobMisplaced) whose home target is this node
C21_RemoveOnlyAfterCopy ==
    [][/\ \A f \in mpfiles \ mpfiles' :
            /\ ljog[f[2]].pc = "remove" /\ ljog[f[2]].lom = f[1]
            /\ ljog[f[2]].copied /\ ~ljog[f[2]].err /\ ~HasCopies(f[1])
       /\ \A o \in Objects :
            {mp \in MPaths : <<o, mp>> \in mpfiles} # {mp \in MPaths : <<o, mp>> \in mpfiles'}
            => \E mp \in MPaths :
                  /\ handling(o, mp) /\ ~IsHRW(o, mp)
                  /\ lenv.skipGlobMisplaced => ljog[mp].tsi \in {0, LT}]_vars

\* a walk has removed the source file of an object after copying it
C21_Witness ==
    /\ xlreb.pc = "ret" /\ ~xlreb.aborted
    /\ \E o \in Objects : \E mp \in MPaths :
           /\ ~IsHRW(o, mp) /\ <<o, mp>> \notin mpfiles /\ <<o, HrwMpath(o)>> \in mpfiles
           /\ o \in ljog[mp].seen

\* the coordinator of target t is inside retransmit, in the send of an entry,
\* and waits for the shard mutex that retransmit itself has locked
waitsForOwnMutex(t) ==
    \E i \in Inv :
        /\ md[t][i].pc = "retx_sending"
        /\ snd[t]["retx"].pc = "lock"
        /\ Hkey(snd[t]["retx"].lom) = md[t][i].shard
        /\ mu[t][md[t][i].shard]

\* a call of retransmit is under way
inRetransmit(t, i) == md[t][i].pc \in {"retx_lock", "retx_visit", "retx_probe", "retx_sending"}

\* C22 as stated: no thread waits in retransmit for a mutex it already holds,
\* and every call of retransmit returns
C22_RetransmitDeadlockFree ==
    /\ [](\A t \in Targets : ~waitsForOwnMutex(t))
    /\ \A t \in Targets : \A i \in Inv : inRetransmit(t, i) ~> ~inRetransmit(t, i)

\* the cluster of SpecReb with rebalance.multiplier 1 or 2
InitMult ==
    \E mult \in {1, 2} :
        InitWith([t \in Targets |-> IF t = 3 THEN 0 ELSE 2],
                 [vcap |-> 2, ec |-> FALSE, gcap |-> 1, lag |-> 0, multiplier |-> mult,
                  objs |-> {"x", "y"}],
                 [t \in Targets |-> IF t = 1 THEN {"x", "y"} ELSE {}], 1, 0)

NextMult ==
    \/ \E t \in {1, 2} : Coordinator(t) \/ DataPath(t) \/ StartTimeout(t)
    \/ \E t \in {1, 2} : \E j \in Joggers : walk_goroutine(t, j)

SpecMult == InitMult /\ [][NextMult]_vars

\* globalRebRun of the run i of target t has returned from wg.Wait()
pastGlobalRebRun(t, i) ==
    md[t][i].pc \in {"waitack", "wack_poll", "wack_sync", "retransmit", "retx_lock", "retx_visit",
                     "retx_probe", "retx_sending", "retx_ret", "fin", "fin_wait", "fini_loop", "fini_rm",
                     "fini_end", "fini_done", "release"}

\* C23 as stated: once globalRebRun has returned no jogger send is in progress;
\* no object is handed to the object bundle when it is closed or nil, and no
\* ack to the closed ack bundle
C23_NoSendOnClosedBundle ==
    /\ [](\A t \in Targets : \A i \in Inv :
            pastGlobalRebRun(t, i) => \A j \in Joggers : snd[t][j].pc = "none")
    /\ [](\A t \in Targets : \A c \in Callers :
            snd[t][c].pc = "sendv" => reb[t].streams = "open")
    /\ [][\A a \in ackwire' \ ackwire : a.st = "sent" => reb[a.src].acks = "open"]_vars

\* the invocations of target t that have received from semaCh and have not
\* sent to it since
slotHolders(t) == {i \in Inv : md[t][i].canRun}

\* C24: the tokens in semaCh plus the invocations that hold the slot are one;
\* an invocation that returned from serialize with 'newer smap' or 'already
\* running' does not hold it; the release finds the channel empty
C24_SlotConservation ==
    \A t \in Targets :
        /\ reb[t].semaCh + Cardinality(slotHolders(t)) = 1
        /\ \A i \in Inv :
            /\ md[t][i].res \in {"newerSmap", "alreadyRunning"} => i \notin slotHolders(t)
            /\ md[t][i].pc = "release" => reb[t].semaCh = 0 /\ i \in slotHolders(t)

\* one invocation has run to its release, and a later one took the free slot
\* in serialize and returned it with 'already running' or 'newer smap'
C24_Witness ==
    \E t \in Targets :
        /\ md[t][1].res = "done" /\ reb[t].semaCh = 1
        /\ md[t][2].res \in {"newerSmap", "alreadyRunning"}

\* the cluster of SpecReb; the rebalance of target 1 may be aborted from outside
NextAbort ==
    \/ \E t \in {1, 2} : Coordinator(t) \/ DataPath(t) \/ StartTimeout(t)
    \/ UserAbort(1)

SpecAbort == InitReb /\ [][NextAbort]_vars /\ WF_vars(NextAbort)

\* a jogger or retransmit of target t begins a send
beginsSend(t) == \E c \in Callers : snd[t][c].pc = "none" /\ snd'[t][c].pc # "none"

\* C25 as stated: once the xaction of a run is aborted the coordinator
\* eventually sets stage DONE and returns the slot, and a jogger that finds the
\* xaction aborted begins no send
C25_AbortTerminates ==
    /\ \A t \in Targets :
          RunAborted(t) ~> (reb[t].stage = rebStageDone /\ reb[t].semaCh = 1)
    /\ [][\A t \in Targets :
            (RunAborted(t) /\ \A i \in Inv : ~inRetransmit(t, i)) => ~beginsSend(t)]_vars

\* the EC sub-phase of the run i of target t ends without an error
ecSucceeds(t, i) ==
    /\ md[t][i].pc = "ec_wait" /\ reb[t].stage = rebStageECNameSpace
    /\ md'[t][i].pc # "ec_wait" /\ nfault' = nfault

\* C26 as stated: when the EC sub-phase has succeeded (stage EC_NAMESPACE, the
\* peers waited for) the coordinator goes on to globalRebRun, which spawns the
\* data-movement joggers, before it enters WAIT_ACK
C26_ECThenDataMovement ==
    [][\A t \in Targets : \A i \in Inv : ecSucceeds(t, i) => md'[t][i].pc = "run"]_vars

\* the stages from a run's Init up to the close of its streams
StagesOfRun == {rebStageInit, rebStageTraverse, rebStageECNameSpace, rebStageWaitAck, rebStageFin}

\* C27 as stated: reb.smap is set only between a run's Init and its
\* FIN_STREAMS and is nil outside, so that a receive that comes before a later
\* run's Init has completed finds nil
C27_SnapshotLifetime ==
    \A t \in Targets : smapPublished(reb[t].smap) => reb[t].stage \in StagesOfRun

\* the send of caller c on target t returns in this step from SendV with an error
sendVFails(t, c) ==
    snd[t][c].pc = "sendv" /\ snd'[t][c].pc # "sendv" /\ nfault' # nfault

\* the send of caller c on target t bails out before the Ack table (load error,
\* object missing or a copy, checksum or open error)
sendBailsOut(t, c) == snd[t][c].pc = "none" /\ snd'[t][c].pc \in {"ret_nil", "ret_err"}

\* the send of caller c on target t goes from the Ack shard to SendV
sendInserts(t, c) == snd[t][c].pc = "lock" /\ snd'[t][c].pc = "sendv"

\* C28: send reaches SendV only through the insertion of its object into the
\* Ack shard, which had no entry of it; an object is handed to the stream only
\* by a send that is at SendV; a SendV error removes the entry, which restores
\* the table; a send that bails out earlier leaves the table alone
C28_SendBookkeeping ==
    [][/\ \A t \in Targets : \A c \in Callers :
            /\ sendInserts(t, c) => /\ snd[t][c].lom \notin lomacks[t]
                                    /\ lomacks'[t] = lomacks[t] \cup {snd[t][c].lom}
            /\ snd'[t][c].pc = "sendv" => snd[t][c].pc = "sendv" \/ sendInserts(t, c)
            /\ sendVFails(t, c) => lomacks'[t] = lomacks[t] \ {snd[t][c].lom}
            /\ sendBailsOut(t, c) => lomacks' = lomacks
       /\ \A m \in wire' \ wire :
            m.cb /\ m.rx = "pending" /\ ~m.waited =>
                \E c \in Callers : snd[m.src][c].pc = "sendv" /\ snd[m.src][c].lom = m.obj]_vars

\* a jogger's send of an object stored here has returned after a SendV error:
\* the object was not handed over and its entry is gone
C28_Witness ==
    \E t \in Targets : \E j \in Joggers :
        LET o == snd[t][j].lom IN
        /\ snd[t][j].pc = "ret_nil" /\ o \in fsobj[t]
        /\ o \notin handed[t] /\ o \notin fsobj[snd[t][j].dst]
        /\ o \notin lomacks[t] /\ nfault = 1

\* the sends of target t that hold the shared lock of o: past lom.Lock(false)
\* and the early exits, not yet at the end of SendV
sendsHolding(t, o) == {c \in Callers : snd[t][c].pc \in {"lock", "sendv", "panic"} /\ snd[t][c].lom = o}

\* the objects SendV has accepted whose completion callback has not fired
callbacksDue(t, o) == {m \in wire : m.src = t /\ m.obj = o /\ m.cb}

\* C29: the shared locks held on an object are those of the sends in progress
\* and of the accepted sends whose callback is due: each lock is released once,
\* by the error path of send or by objSentCallback, never twice, and none is
\* held once the callback has fired
C29_LockBalance ==
    \A t \in Targets : \A o \in Objects :
        rlock[t][o] = Cardinality(sendsHolding(t, o)) + Cardinality(callbacksDue(t, o))

\* the callback of an accepted send has fired and counted the object, and no
\* shared lock is left on it
C29_Witness ==
    \E t \in Targets : \E o \in Objects :
        /\ o \in handed[t] /\ stats[t].tx > 0
        /\ callbacksDue(t, o) = {} /\ rlock[t][o] = 0

\* ---------------------------------------------------------------------------
\* retransmit's count of resends

\* run i of target t takes the return of a resend and its count grows
countsResend(t, i) ==
    /\ md[t][i].pc = "retx_sending"
    /\ snd[t]["retx"].pc \in SendReturns
    /\ md'[t][i].pc # "retx_sending"
    /\ md'[t][i].cnt > md[t][i].cnt

\* an object of target t is deleted from outside the rebalance (the delete
\* takes the exclusive lock of the object, which waits for its readers)
ObjectDeleted(t, o) ==
    /\ o \in fsobj[t]
    /\ rlock[t][o] = 0
    /\ fsobj' = [fsobj EXCEPT ![t] = @ \ {o}]
    /\ UNCHANGED <<extVars, ctlVars, lomacks, mu, filterGFN, rlock, jog, snd, wire,
                   ackwire, stats, handed>>

\* the cluster of SpecReb; the objects of target 1 may be deleted meanwhile
NextDel ==
    \/ \E t \in {1, 2} : Coordinator(t) \/ DataPath(t) \/ StartTimeout(t)
    \/ \E o \in Objects : ObjectDeleted(1, o)

SpecDel == InitReb /\ [][NextDel]_vars

\* C30: retransmit counts a resend only when send handed the object to the
\* stream bundle; a send that returned without transmitting is not counted
C30_CountsRealResends ==
    [][\A t \in Targets, i \in Inv :
        countsResend(t, i) => snd[t]["retx"].pc = "ret_ok"]_vars

\* ---------------------------------------------------------------------------
\* retransmit's drop rules

\* retransmit of run i visits the entry of o, and the reload fails or the
\* object is gone from the local target
visitFails(t, i, o) ==
    /\ md[t][i].pc = "retx_visit"
    /\ o \in md[t][i].todo /\ o \notin md'[t][i].todo
    /\ o \notin fsobj[t] \/ nfault' > nfault

\* retransmit of run i takes the answer of the HEAD probe for o: present
probeFinds(t, i, o) ==
    /\ md[t][i].pc = "retx_probe" /\ md[t][i].lom = o
    /\ md'[t][i] # md[t][i]
    /\ lookupRemoteSingle(o, HrwTarget(o, reb[t].smap))

\* every entry of the Ack table of target t is of an object its home has stored
allPersisted(t) ==
    \A o \in lomacks[t] : o \in fsobj[HrwTarget(o, reb[t].smap)]

\* C31 as stated: retransmit drops an entry, without a resend and without
\* counting it, when the reload fails, the object is gone locally or the HEAD
\* probe finds it at its home; when every entry left is of an object the home
\* has stored (the acks were lost), the entries are dropped, retransmit returns
\* zero (the coordinator leaves WaitAck) and the run completes
C31_RetransmitDrops ==
    /\ [][\A t \in Targets, i \in Inv, o \in Objects :
            (visitFails(t, i, o) \/ probeFinds(t, i, o))
                => /\ o \notin lomacks'[t]
                   /\ md'[t][i].cnt = md[t][i].cnt
                   /\ snd'[t]["retx"] = snd[t]["retx"]
                   /\ wire' = wire]_vars
    /\ \A t \in Targets :
          (/\ reb[t].stage = rebStageWaitAck
           /\ lomacks[t] # {} /\ allPersisted(t)
           /\ \E i \in Inv : md[t][i].pc = "retransmit")
              ~> (reb[t].stage = rebStageDone)

\* ---------------------------------------------------------------------------
\* ack and HEAD probe

\* nothing of object o is on its way between the targets
nothingInFlight(o) ==
    /\ \A m \in wire : m.obj # o
    /\ \A a \in ackwire : a.obj # o

\* the run of target t is over and o, which is not at home on t, is stored at
\* its home and has no entry in the Ack table of t
convergedAt(t, o) ==
    LET tsi == HrwTarget(o, reb[t].smap) IN
    /\ reb[t].stage = rebStageDone
    /\ tsi # t /\ o \in fsobj[tsi]
    /\ o \notin lomacks[t]
    /\ nothingInFlight(o)

\* C32 as stated: for an object stored at its destination, the ack and the
\* HEAD probe of retransmit, in either order, leave the entry absent from the
\* Ack table and the local copy of the source removed (no I/O error occurred)
C32_AckAndProbeConverge ==
    \A t \in Targets, o \in Objects :
        (convergedAt(t, o) /\ nfault = 0) => o \notin fsobj[t]

\* ---------------------------------------------------------------------------
\* the skip rule of the jogger

\* target 1 alone with x and y, on Smap version 1 (it is the home of both) and
\* then 2 (the home of x is target 2): two calls of runGlobalReb, each with the
\* current or the previous Smap, rebalance.multiplier 1 or 2, while the GFN
\* path fills the filter
InitSkip ==
    \E mult \in {1, 2} :
        InitWith([t \in Targets |-> IF t = 1 THEN 1 ELSE 0],
                 [vcap |-> 2, ec |-> FALSE, gcap |-> 1, lag |-> 1, multiplier |-> mult,
                  objs |-> {"x", "y"}],
                 [t \in Targets |-> IF t = 1 THEN {"x", "y"} ELSE {}], NInv, 0)

NextSkip ==
    \/ Coordinator(1)
    \/ \E j \in Joggers : walk(1, j) \/ walk_sent(1, j) \/ jog_done(1, j) \/ walk_goroutine(1, j)
    \/ \E c \in Callers : send_insert(1, c) \/ send_SendV(1, c)
    \/ \E m \in wire : objSentCallback(1, m)
    \/ \E i \in Inv : retransmit_visit(1, i) \/ retransmit_probe(1, i) \/ retransmit_sent(1, i)
    \/ \E m \in wire : recvObj_wait(2, m) \/ recvObj_timeout(2, m)
    \/ \E o \in Objects : gfnInsert(1, o)
    \/ SmapUpdate(1)

SpecSkip == InitSkip /\ [][NextSkip]_vars

\* the send that jogger j of target t began inserts o into the Ack table
joggerInserts(t, j, o) ==
    /\ snd[t][j].lom = o
    /\ snd[t][j].pc = "lock" /\ snd'[t][j].pc = "sendv"

\* the send that jogger j of target t began hands o to the object stream
joggerHandsOver(t, j, o) ==
    /\ snd[t][j].lom = o
    /\ snd[t][j].pc = "sendv" /\ snd'[t][j].pc = "ret_ok"

\* C33: a jogger never inserts into the Ack table, and never hands to the
\* object stream, an object whose home in the snapshot of the run is the local
\* target, whatever the GFN filter holds and whatever the multiplier; no send
\* of a jogger is ever in progress for such an object
C33_JoggerSkipsLocal ==
    /\ [][\A t \in Targets, j \in Joggers, o \in Objects :
            (joggerInserts(t, j, o) \/ joggerHandsOver(t, j, o))
                => HrwTarget(o, reb[t].smap) # t]_vars
    /\ [](\A t \in Targets, j \in Joggers :
            snd[t][j].pc # "none"
                => /\ HrwTarget(snd[t][j].lom, reb[t].smap) # t
                   /\ snd[t][j].dst = HrwTarget(snd[t][j].lom, reb[t].smap))
    /\ [](\A m \in wire : m.dst # m.src)

\* with multiplier 2 the joggers of a run on Smap version 1 have walked
\* past x, whose home in the snapshot is target 1 although the target is on
\* version 2 by now, and x is in the GFN filter
C33_Witness ==
    \E i \in Inv :
        /\ env.multiplier = 2
        /\ md[1][i].pc = "joggers" /\ md[1][i].smap = 1 /\ smapowner[1] = 2
        /\ \A j \in Joggers : jog[1][j].pc = "done" /\ snd[1][j].pc = "none"
        /\ "x" \in fsobj[1] /\ "x" \in filterGFN[1]
        /\ HrwTarget("x", reb[1].smap) = 1 /\ HrwTarget("x", smapowner[1]) = 2
        /\ lomacks[1] = {} /\ wire = {}

\* ---------------------------------------------------------------------------
\* the semaphore of the jogger (rebalance.multiplier)

MaxMult == 2
MaxEntries == 4

\* no target has joined and no rebalance has been called
NoRebalance ==
    /\ RebWith([t \in Targets |-> 0],
               [vcap |-> 0, ec |-> FALSE, gcap |-> 1, lag |-> 0, multiplier |-> 1, objs |-> {}],
               [t \in Targets |-> {}], 0, 0)
    /\ LocalIdle

\* the goroutines of walk that hold a slot of rj.sema
slotsHeld(r) == r.send + r.ok + r.failed

semaBlocks_never(sema, multiplier) == FALSE

\* rj.sema <- struct{}{} blocks while the channel of capacity multiplier is full
semaBlocks(sema, multiplier) == sema >= multiplier

\* rj.errCh <- ers blocks while the channel of capacity cap(rj.sema)+1 is full
errChBlocks(errCh, multiplier) == errCh >= multiplier + 1

\* walk: an entry that is skipped (a directory, an object at home, one sent
\* via GFN) returns nil; lom.Load may fail, which ends fs.Walk; else the entry
\* goes to send, directly (rj.sema == nil) or after rj.sema <- struct{}{}
mwalk ==
    /\ mjog.pc = "walk" /\ mjog.todo > 0
    /\ \/ mjog' = [mjog EXCEPT !.todo = @ - 1]
       \/ mjog' = [mjog EXCEPT !.todo = 0, !.pc = "done"]
       \/ /\ mjog.multiplier = 1
          /\ mjog' = [mjog EXCEPT !.todo = @ - 1, !.pc = "sending", !.send = 1]
       \/ /\ mjog.multiplier > 1
          /\ mjog' = [mjog EXCEPT !.todo = @ - 1, !.pc = "sema"]
    /\ UNCHANGED <<ctlVars, dataVars, lenv, mpfiles, xlreb, ljog, dr, co>>

\* err = rj.send(lom, tsi) returned: an error ends fs.Walk
mwalk_sent ==
    /\ mjog.pc = "sending"
    /\ \/ mjog' = [mjog EXCEPT !.send = 0, !.pc = "walk", !.sent = @ + 1]
       \/ mjog' = [mjog EXCEPT !.send = 0, !.pc = "done", !.todo = 0]
    /\ UNCHANGED <<ctlVars, dataVars, lenv, mpfiles, xlreb, ljog, dr, co>>

\* rj.sema <- struct{}{}; go func() { ers := rj.send(lom, tsi) ...
mwalk_go ==
    /\ mjog.pc = "sema"
    /\ ~semaBlocks(mjog.sema, mjog.multiplier)
    /\ mjog' = [mjog EXCEPT !.sema = @ + 1, !.send = @ + 1, !.pc = "walk"]
    /\ UNCHANGED <<ctlVars, dataVars, lenv, mpfiles, xlreb, ljog, dr, co>>

\* a goroutine of walk: rj.send returned, nil or an error
mgo_sent ==
    /\ mjog.multiplier > 1 /\ mjog.send > 0
    /\ \/ mjog' = [mjog EXCEPT !.send = @ - 1, !.ok = @ + 1, !.sent = @ + 1]
       \/ mjog' = [mjog EXCEPT !.send = @ - 1, !.failed = @ + 1]
    /\ UNCHANGED <<ctlVars, dataVars, lenv, mpfiles, xlreb, ljog, dr, co>>

\* a goroutine of walk: <-rj.sema; it is over unless ers != nil
mgo_release ==
    /\ \/ /\ mjog.ok > 0
          /\ mjog' = [mjog EXCEPT !.ok = @ - 1, !.sema = @ - 1]
       \/ /\ mjog.failed > 0
          /\ mjog' = [mjog EXCEPT !.failed = @ - 1, !.sema = @ - 1, !.queue = @ + 1]
    /\ UNCHANGED <<ctlVars, dataVars, lenv, mpfiles, xlreb, ljog, dr, co>>

\* a goroutine of walk: rj.errCh <- ers (nobody receives from rj.errCh)
mgo_queue ==
    /\ mjog.queue > 0
    /\ ~errChBlocks(mjog.errCh, mjog.multiplier)
    /\ mjog' = [mjog EXCEPT !.queue = @ - 1, !.errCh = @ + 1]
    /\ UNCHANGED <<ctlVars, dataVars, lenv, mpfiles, xlreb, ljog, dr, co>>

\* jog: fs.Walk returned; rj.xreb.confirmCh <- struct{}{}; rj.wg.Done()
mjog_done ==
    /\ mjog.pc = "walk" /\ mjog.todo = 0
    /\ mjog' = [mjog EXCEPT !.pc = "done"]
    /\ UNCHANGED <<ctlVars, dataVars, lenv, mpfiles, xlreb, ljog, dr, co>>

\* one jogger with up to MaxEntries entries to walk and multiplier 1..MaxMult
InitSema ==
    /\ NoRebalance
    /\ \E m \in 1..MaxMult, n \in 1..MaxEntries :
           mjog = [mjog0 EXCEPT !.multiplier = m, !.pc = "walk", !.todo = n]
    /\ dr = dr0
    /\ co = co0

NextSema ==
    \/ mwalk
    \/ mwalk_sent
    \/ mwalk_go
    \/ mgo_sent
    \/ mgo_release
    \/ mgo_queue
    \/ mjog_done

SpecSema == InitSema /\ [][NextSema]_vars /\ WF_vars(NextSema)

\* C34: with multiplier m > 1 at most m executions of send that one jogger
\* started are in progress, every goroutine that waits at rj.errCh has given
\* its slot back, so that failing sends never keep the walk from its end; with
\* multiplier 1 there is no goroutine, and walk visits an entry only when no
\* send is in progress
C34_BoundedSends ==
    /\ [](mjog.multiplier > 1
            => /\ mjog.send <= mjog.multiplier
               /\ slotsHeld(mjog) = mjog.sema /\ mjog.sema <= mjog.multiplier)
    /\ [](mjog.multiplier = 1
            => /\ mjog.sema = 0 /\ mjog.ok = 0 /\ mjog.failed = 0 /\ mjog.queue = 0
               /\ mjog.send <= 1 /\ (mjog.send = 1 <=> mjog.pc = "sending"))
    /\ [][mjog.pc = "walk" /\ mjog'.todo < mjog.todo /\ mjog.multiplier = 1
            => mjog.send = 0]_vars
    /\ <>(mjog.pc = "done")

\* the walk is over with multiplier 2 although rj.errCh is full and a
\* goroutine waits there with its error
C34_Witness ==
    /\ mjog.multiplier = 2 /\ mjog.pc = "done"
    /\ mjog.errCh = 3 /\ mjog.queue = 1 /\ mjog.sema = 0

\* ---------------------------------------------------------------------------
\* the wait for the peers at stage FIN

\* the peers of target t in the Smap of run i that are at neither WAIT_ACK nor FIN
lateOrGone(t, i) ==
    {p \in Members(md[t][i].smap) \ {t} : reb[p].stage \notin {rebStageWaitAck, rebStageFin}}

\* run i of target t is in the loop after reb.stage.Store(rebStageFin), with a
\* non-zero error count and its xaction not aborted
waitsForPeers(t, i) ==
    /\ md[t][i].pc = "fin_wait"
    /\ md[t][i].errCnt # 0
    /\ ~xact[t][i].aborted

\* C35: after stage FIN is set, while the broadcast error count is not zero
\* and the xaction is not aborted, the coordinator does nothing but broadcast
\* waitFinExtended again: it does not enter globalRebFini, the marker and the
\* streams stay as they are and the stage stays FIN; it enters globalRebFini
\* only with a zero count or an aborted xaction
C35_FinWaitsForPeers ==
    /\ [][\A t \in Targets, i \in Inv :
            waitsForPeers(t, i)
                => /\ md'[t][i].pc = "fin_wait"
                   /\ md'[t][i] # md[t][i]
                        => md'[t][i].errCnt = Cardinality(lateOrGone(t, i))
                   /\ marker'[t] = marker[t]
                   /\ reb'[t].streams = reb[t].streams /\ reb'[t].acks = reb[t].acks
                   /\ reb'[t].stage = rebStageFin]_vars
    /\ [][\A t \in Targets, i \in Inv :
            (md[t][i].pc = "fin_wait" /\ md'[t][i].pc # "fin_wait")
                => /\ md'[t][i].pc = "fini_loop"
                   /\ md[t][i].errCnt = 0 \/ xact[t][i].aborted]_vars
    /\ [](\A t \in Targets, i \in Inv :
            md[t][i].pc = "fin_wait" => reb[t].stage = rebStageFin)

\* the loop of target 1 ended on the abort of the xaction, the error count of
\* the last broadcast still not zero, and globalRebFini has begun
C35_Witness ==
    \E i \in Inv :
        /\ md[1][i].pc = "fini_loop" /\ md[1][i].errCnt # 0 /\ md[1][i].aborted
        /\ reb[1].stage = rebStageFin /\ reb[1].streams = "open"

\* ---------------------------------------------------------------------------
\* preemption by serialize

\* target 1 as in SpecSer, without aborts from outside: the only aborts are
\* those that serialize requests
NextPre ==
    \/ Coordinator(1)
    \/ CoordinatorEC(1)
    \/ \E j \in Joggers : jog_done(1, j)
    \/ SmapUpdate(1)

SpecPre == InitSer /\ [][NextPre]_vars

\* call i of target t takes a step of its serialize loop after the select
serializeChecks(t, i) ==
    /\ md[t][i].pc = "serialize_chk"
    /\ md'[t][i] # md[t][i]

\* the xaction of run k of target t becomes aborted
getsAborted(t, k) == ~xact[t][k].aborted /\ xact'[t][k].aborted

\* C36: serialize aborts no xaction but the registered one, and only when it
\* has no slot, the membership version of that xaction is strictly lower than
\* its own and the xaction has not finished; a caller without the slot goes
\* round the loop again or returns, and never begins globalRebInit
C36_PreemptsOnlyOlder ==
    /\ [][\A t \in Targets, i \in Inv, k \in Inv :
            (serializeChecks(t, i) /\ getsAborted(t, k))
                => /\ k = xentry[t] /\ ~md[t][i].canRun
                   /\ xact[t][k].smapVersion < md[t][i].smap
                   /\ ~xact[t][k].finished]_vars
    /\ [][\A t \in Targets, i \in Inv :
            (serializeChecks(t, i) /\ ~md[t][i].canRun)
                => md'[t][i].pc \in {"serialize", "ret"}]_vars
    /\ [](\A t \in Targets, i \in Inv : md[t][i].pc = "init" => md[t][i].canRun)

\* a call on Smap version 2 without the slot is back in the loop of serialize
\* while the registered xaction, of version 1, is aborted and not finished
C36_Witness ==
    \E i \in Inv : \E k \in Inv \ {i} :
        /\ md[1][i].pc = "serialize" /\ ~md[1][i].canRun /\ md[1][i].smap = 2
        /\ xentry[1] = k /\ xact[1][k].smapVersion = 1
        /\ xact[1][k].aborted /\ ~xact[1][k].finished
        /\ reb[1].semaCh = 0

\* ---------------------------------------------------------------------------
\* the assertions of serialize and globalRebInit

\* the rebalance xaction that is registered on target t is still running
registeredRuns(t) == xentry[t] # 0 /\ ~xact[t][xentry[t]].finished

\* C37: no call ever stops on a failed assertion; a call that holds the slot
\* and is in serialize or about to renew the xaction finds the registered
\* xaction, if any, finished; and the slot is never free while the registered
\* xaction is still running
C37_ChecksNeverFail ==
    /\ \A t \in Targets, i \in Inv : md[t][i].pc # "panic"
    /\ \A t \in Targets, i \in Inv :
          (md[t][i].canRun /\ md[t][i].pc \in {"serialize_chk", "init"}) => ~registeredRuns(t)
    /\ \A t \in Targets : reb[t].semaCh > 0 => ~registeredRuns(t)

\* the second call has taken the slot that the first run returned and is about
\* to renew the xaction; the registered xaction is the finished one of the first
C37_Witness ==
    /\ md[1][2].pc = "init" /\ md[1][2].canRun
    /\ xentry[1] = 1 /\ xact[1][1].finished
    /\ reb[1].semaCh = 0 /\ reb[1].stage = rebStageDone

\* ---------------------------------------------------------------------------
\* the streams of a run

\* run i of target t calls endStreams
callsEndStreams(t, i) == md[t][i].pc = "fini_end" /\ md'[t][i].pc = "fini_done"

\* run i of target t calls beginStreams
callsBeginStreams(t, i) == md[t][i].pc = "init" /\ md'[t][i].pc = "init_marker"

\* C38: whenever endStreams is called the stage is FIN and both bundles of the
\* run are open; the call moves the stage to FIN_STREAMS and closes both;
\* beginStreams is called at stage INIT only, when no bundle of an earlier run
\* is left open; and no target is at stage DONE with a bundle open
C38_StreamsClosedOnce ==
    /\ [][\A t \in Targets, i \in Inv :
            callsEndStreams(t, i)
                => /\ reb[t].stage = rebStageFin
                   /\ reb[t].streams = "open" /\ reb[t].acks = "open"
                   /\ reb'[t].stage = rebStageFinStreams
                   /\ reb'[t].streams = "nil" /\ reb'[t].acks = "closed"]_vars
    /\ [][\A t \in Targets, i \in Inv :
            callsBeginStreams(t, i)
                => /\ reb'[t].stage = rebStageInit
                   /\ reb[t].streams # "open" /\ reb[t].acks # "open"
                   /\ reb'[t].streams = "open" /\ reb'[t].acks = "open"]_vars
    /\ [](\A t \in Targets :
            reb[t].stage = rebStageDone => reb[t].streams # "open" /\ reb[t].acks # "open")

\* the second run of target 1 has closed its streams and set stage DONE, after
\* the first run had done the same
C38_Witness ==
    /\ md[1][2].pc = "release" /\ reb[1].stage = rebStageDone
    /\ reb[1].streams = "nil" /\ reb[1].acks = "closed"
    /\ xact[1][1].finished /\ xact[1][2].finished /\ xentry[1] = 2
    /\ md[1][1] = Ret("done")

(* ------------------------- DiffResolver (dload) ------------------------- *)
DiffResolverSend == 0
DiffResolverRecv == 1
DiffResolverDelete == 2
DiffResolverSkip == 3
DiffResolverErr == 4
DiffResolverEOF == 5
\* the size of srcCh, dstCh and resultCh
chanSize == 1000

DiffResolverResult(action, src, dst) == [Action |-> action, Src |-> src, Dst |-> dst]

\* v, ok = <-ch: waits while the channel is open and empty
canRecv(ch, closed) == Len(ch) > 0 \/ closed
recvVal(ch) == IF Len(ch) > 0 THEN Head(ch) ELSE 0
recvOk(ch) == Len(ch) > 0
recvRest(ch) == IF Len(ch) > 0 THEN Tail(ch) ELSE ch

\* dr.resultCh <- r
emit(r) == [dr EXCEPT !.resultCh = Append(@, r), !.out = Append(@, r)]

\* the names of S in ascending order
RECURSIVE SortedSeq(_)
SortedSeq(S) ==
    IF S = {} THEN <<>>
    ELSE LET m == CHOOSE x \in S : \A y \in S : x <= y
         IN <<m>> \o SortedSeq(S \ {m})

\* dr.PushSrc(lom) of walk's callback
PushSrc ==
    /\ dr.pc # "idle" /\ ~dr.srcClosed
    /\ Len(dr.srcIn) > 0 /\ Len(dr.srcCh) < chanSize
    /\ dr' = [dr EXCEPT !.srcCh = Append(@, Head(dr.srcIn)),
                        !.srcAll = Append(@, Head(dr.srcIn)), !.srcIn = Tail(@)]
    /\ UNCHANGED <<ctlVars, dataVars, lenv, mpfiles, xlreb, ljog, mjog, co>>

\* fs.WalkBck returns an error that is not an abort: dr.Abort(err)
walk_Abort ==
    /\ dr.pc # "idle" /\ ~dr.srcClosed /\ Len(dr.srcIn) > 0
    /\ dr' = [dr EXCEPT !.err = TRUE, !.srcIn = <<>>]
    /\ UNCHANGED <<ctlVars, dataVars, lenv, mpfiles, xlreb, ljog, mjog, co>>

\* defer dr.CloseSrc() of walk
CloseSrc ==
    /\ dr.pc # "idle" /\ ~dr.srcClosed /\ dr.srcIn = <<>>
    /\ dr' = [dr EXCEPT !.srcClosed = TRUE]
    /\ UNCHANGED <<ctlVars, dataVars, lenv, mpfiles, xlreb, ljog, mjog, co>>

\* dr.PushDst(v) of push
PushDst ==
    /\ dr.pc # "idle" /\ ~dr.dstClosed
    /\ Len(dr.dstIn) > 0 /\ Len(dr.dstCh) < chanSize
    /\ dr' = [dr EXCEPT !.dstCh = Append(@, Head(dr.dstIn)),
                        !.dstAll = Append(@, Head(dr.dstIn)), !.dstIn = Tail(@)]
    /\ UNCHANGED <<ctlVars, dataVars, lenv, mpfiles, xlreb, ljog, mjog, co>>

\* job.genNext returns an error: dr.Abort(err)
push_Abort ==
    /\ dr.pc # "idle" /\ ~dr.dstClosed /\ Len(dr.dstIn) > 0
    /\ dr' = [dr EXCEPT !.err = TRUE, !.dstIn = <<>>]
    /\ UNCHANGED <<ctlVars, dataVars, lenv, mpfiles, xlreb, ljog, mjog, co>>

\* the deferred dr.CloseDst() of push
CloseDst ==
    /\ dr.pc # "idle" /\ ~dr.dstClosed /\ dr.dstIn = <<>>
    /\ dr' = [dr EXCEPT !.dstClosed = TRUE]
    /\ UNCHANGED <<ctlVars, dataVars, lenv, mpfiles, xlreb, ljog, mjog, co>>

\* src, srcOk := <-dr.srcCh
Start_src ==
    /\ dr.pc \in {"start", "next_src", "next_both"}
    /\ canRecv(dr.srcCh, dr.srcClosed)
    /\ dr' = [dr EXCEPT !.src = recvVal(dr.srcCh), !.srcOk = recvOk(dr.srcCh),
                        !.srcCh = recvRest(@),
                        !.pc = IF dr.pc = "next_src" THEN "loop" ELSE "next_dst"]
    /\ UNCHANGED <<ctlVars, dataVars, lenv, mpfiles, xlreb, ljog, mjog, co>>

\* dst, dstOk := <-dr.dstCh
Start_dst ==
    /\ dr.pc = "next_dst"
    /\ canRecv(dr.dstCh, dr.dstClosed)
    /\ dr' = [dr EXCEPT !.dst = recvVal(dr.dstCh), !.dstOk = recvOk(dr.dstCh),
                        !.dstCh = recvRest(@), !.pc = "loop"]
    /\ UNCHANGED <<ctlVars, dataVars, lenv, mpfiles, xlreb, ljog, mjog, co>>

\* the conditions of the loop of Start
atEOF(srcOk, dstOk) == ~srcOk /\ ~dstOk
takesDst_unordered(srcOk, dstOk, src, dst) == ~srcOk
takesDst(srcOk, dstOk, src, dst) == ~srcOk \/ (dstOk /\ src > dst)
takesSrc(srcOk, dstOk, src, dst) == ~dstOk \/ (srcOk /\ src < dst)

\* one pass of the loop of Start up to its next receive or its return
Start_loop ==
    /\ dr.pc = "loop" /\ Len(dr.resultCh) < chanSize
    /\ IF atEOF(dr.srcOk, dr.dstOk)
       THEN dr' = [emit(DiffResolverResult(DiffResolverEOF, 0, 0)) EXCEPT !.pc = "return"]
       ELSE IF takesDst(dr.srcOk, dr.dstOk, dr.src, dr.dst)
       THEN dr' = [emit(DiffResolverResult(DiffResolverRecv, 0, dr.dst)) EXCEPT !.pc = "next_dst"]
       ELSE IF takesSrc(dr.srcOk, dr.dstOk, dr.src, dr.dst)
       THEN \E remote \in {"yes", "no", "err"} :
              dr' = [(CASE remote = "err" ->
                             emit(DiffResolverResult(DiffResolverErr, dr.src, dr.dst))
                        [] remote = "yes" ->
                             emit(DiffResolverResult(DiffResolverDelete, dr.src, 0))
                        [] OTHER ->
                             emit(DiffResolverResult(DiffResolverSend, dr.src, 0)))
                     EXCEPT !.remote[dr.src] = remote,
                            !.pc = IF remote = "err" THEN "return" ELSE "next_src"]
       ELSE \E equal \in {"yes", "no", "err"} :
              dr' = [(CASE equal = "err" ->
                             emit(DiffResolverResult(DiffResolverErr, dr.src, dr.dst))
                        [] equal = "yes" ->
                             emit(DiffResolverResult(DiffResolverSkip, dr.src, dr.dst))
                        [] OTHER ->
                             emit(DiffResolverResult(DiffResolverRecv, 0, dr.dst)))
                     EXCEPT !.equal[dr.src] = equal,
                            !.pc = IF equal = "err" THEN "return" ELSE "next_both"]
    /\ UNCHANGED <<ctlVars, dataVars, lenv, mpfiles, xlreb, ljog, mjog, co>>

\* defer close(dr.resultCh)
Start_close ==
    /\ dr.pc = "return"
    /\ dr' = [dr EXCEPT !.resClosed = TRUE, !.pc = "closed"]
    /\ UNCHANGED <<ctlVars, dataVars, lenv, mpfiles, xlreb, ljog, mjog, co>>

\* DiffResolver.Next
DiffNext ==
    /\ dr.pc # "idle"
    /\ IF dr.err
       THEN dr' = [dr EXCEPT !.ret = [res |-> DiffResolverResult(0, 0, 0), err |-> TRUE]]
       ELSE /\ canRecv(dr.resultCh, dr.resClosed)
            /\ dr' = [dr EXCEPT
                       !.ret = [res |-> IF recvOk(dr.resultCh) THEN Head(dr.resultCh)
                                        ELSE DiffResolverResult(DiffResolverEOF, 0, 0),
                                err |-> FALSE],
                       !.resultCh = recvRest(@)]
    /\ UNCHANGED <<ctlVars, dataVars, lenv, mpfiles, xlreb, ljog, mjog, co>>

\* NewDiffResolver, go dr.Start(), and the two producers with what they are to push
InitDiff ==
    /\ NoRebalance
    /\ mjog = mjog0
    /\ co = co0
    /\ \E S \in SUBSET Names, D \in SUBSET Names :
           dr = [dr0 EXCEPT !.pc = "start", !.srcIn = SortedSeq(S), !.dstIn = SortedSeq(D)]

StartSteps ==
    \/ Start_src
    \/ Start_dst
    \/ Start_loop
    \/ Start_close

Producers ==
    \/ PushSrc
    \/ walk_Abort
    \/ CloseSrc
    \/ PushDst
    \/ push_Abort
    \/ CloseDst

NextDiff ==
    \/ StartSteps
    \/ Producers
    \/ DiffNext

SpecDiff == InitDiff /\ [][NextDiff]_vars /\ WF_vars(StartSteps) /\ WF_vars(Producers)

\* the names a stream has carried
streamNames(stream) == {stream[i] : i \in 1..Len(stream)}

\* the action for name n, given every name the two streams carried and what the
\* DiffResolverCtx answered
actionFor(n) ==
    IF n \notin streamNames(dr.srcAll) THEN DiffResolverRecv
    ELSE IF n \notin streamNames(dr.dstAll)
    THEN CASE dr.remote[n] = "err" -> DiffResolverErr
           [] dr.remote[n] = "yes" -> DiffResolverDelete
           [] OTHER -> DiffResolverSend
    ELSE CASE dr.equal[n] = "err" -> DiffResolverErr
           [] dr.equal[n] = "yes" -> DiffResolverSkip
           [] OTHER -> DiffResolverRecv

\* one result per distinct name in ascending order up to the first error, and
\* DiffResolverEOF at the end when there was no error
mergedResults ==
    LET all == streamNames(dr.srcAll) \cup streamNames(dr.dstAll)
        bad == {n \in all : actionFor(n) = DiffResolverErr}
        upto == {n \in all : \A b \in bad : n <= b}
        names == SortedSeq(upto)
    IN [i \in 1..Len(names) |-> [Action |-> actionFor(names[i]), name |-> names[i]]]
       \o (IF bad = {} THEN <<[Action |-> DiffResolverEOF, name |-> 0]>> ELSE <<>>)

\* the action and the name of every result Start has emitted
emitted ==
    [i \in 1..Len(dr.out) |->
        [Action |-> dr.out[i].Action,
         name |-> IF dr.out[i].Src # 0 THEN dr.out[i].Src ELSE dr.out[i].Dst]]

MaxCalls == 3

\* co.Lock() waits while another caller holds the mutex
mutexHeld_never(mutex) == FALSE
mutexHeld(mutex) == mutex # 0

\* modify calls runPre: co.Lock()
runPre_Lock(c) ==
    /\ co.mod[c].pc = "idle" /\ co.left > 0
    /\ ~mutexHeld(co.mutex)
    /\ co' = [co EXCEPT !.mutex = c, !.left = @ - 1,
                        !.mod[c] = [configModifier0 EXCEPT !.pc = "clone"]]
    /\ UNCHANGED <<ctlVars, dataVars, lenv, mpfiles, xlreb, ljog, mjog, dr>>

\* clone = co.get().clone()
runPre_clone(c) ==
    /\ co.mod[c].pc = "clone"
    /\ co' = [co EXCEPT !.mod[c].clone = co.config, !.mod[c].pc = "pre"]
    /\ UNCHANGED <<ctlVars, dataVars, lenv, mpfiles, xlreb, ljog, mjog, dr>>

\* updated, err = ctx.pre(ctx, clone), and the return when err != nil || !updated
runPre_pre(c) ==
    /\ co.mod[c].pc = "pre"
    /\ \E updated \in BOOLEAN, err \in BOOLEAN :
           co' = [co EXCEPT !.mod[c].updated = updated, !.mod[c].err = err,
                            !.mod[c].pc = IF err \/ ~updated THEN "unlock" ELSE "persist"]
    /\ UNCHANGED <<ctlVars, dataVars, lenv, mpfiles, xlreb, ljog, mjog, dr>>

\* clone.Version++ and co.persist(clone): jsp.Save, then co.put(clone)
runPre_persist(c) ==
    /\ co.mod[c].pc = "persist"
    /\ \/ co' = [co EXCEPT !.config = co.mod[c].clone + 1, !.saved = @ + 1,
                           !.mod[c].clone = @ + 1, !.mod[c].pc = "updateGCO"]
       \/ co' = [co EXCEPT !.mod[c].clone = 0, !.mod[c].updated = FALSE,
                           !.mod[c].err = TRUE, !.mod[c].pc = "unlock"]
    /\ UNCHANGED <<ctlVars, dataVars, lenv, mpfiles, xlreb, ljog, mjog, dr>>

\* co.updateGCO(): cmn.GCO.Put(&config.Config) unless SetLocalConf, Apply or
\* Validate fails; runPre drops the error
updateGCO(c) ==
    /\ co.mod[c].pc = "updateGCO"
    /\ \/ co' = [co EXCEPT !.gco = co.config, !.mod[c].pc = "unlock"]
       \/ co' = [co EXCEPT !.mod[c].pc = "unlock"]
    /\ UNCHANGED <<ctlVars, dataVars, lenv, mpfiles, xlreb, ljog, mjog, dr>>

\* defer co.Unlock(), and the return of runPre to modify
runPre_Unlock(c) ==
    /\ co.mod[c].pc = "unlock"
    /\ co' = [co EXCEPT !.mutex = 0,
                        !.mod[c].pc = IF co.mod[c].err \/ ~co.mod[c].updated
                                      THEN "idle" ELSE "final"]
    /\ UNCHANGED <<ctlVars, dataVars, lenv, mpfiles, xlreb, ljog, mjog, dr>>

\* ctx.final(ctx, config) and the return of modify
modify_final(c) ==
    /\ co.mod[c].pc = "final"
    /\ co' = [co EXCEPT !.mod[c].pc = "idle"]
    /\ UNCHANGED <<ctlVars, dataVars, lenv, mpfiles, xlreb, ljog, mjog, dr>>

\* configOwner.modifyOverride: under the mutex it puts a clone of cmn.GCO
modifyOverride ==
    /\ ~mutexHeld(co.mutex)
    /\ ~co.override
    /\ co' = [co EXCEPT !.override = TRUE]
    /\ UNCHANGED <<ctlVars, dataVars, lenv, mpfiles, xlreb, ljog, mjog, dr>>

\* the owner after load, and the calls of modify to come
InitConf ==
    /\ NoRebalance
    /\ mjog = mjog0
    /\ dr = dr0
    /\ \E v \in 1..2 :
           co = [co0 EXCEPT !.config = v, !.gco = v, !.loaded = v, !.left = MaxCalls]

NextConf ==
    \/ \E c \in ConfCallers :
          \/ runPre_Lock(c)
          \/ runPre_clone(c)
          \/ runPre_pre(c)
          \/ runPre_persist(c)
          \/ updateGCO(c)
          \/ runPre_Unlock(c)
          \/ modify_final(c)
    \/ modifyOverride

SpecConf == InitConf /\ [][NextConf]_vars

\* caller c is between co.Lock() and co.Unlock()
inRunPre(c) == co.mod[c].pc \in {"clone", "pre", "persist", "updateGCO", "unlock"}

\* C40: the Version behind co.config changes only in the persist of a modify
\* whose pre reported an update, and then by exactly one from the version that
\* was published before; a modify whose pre reports no update or an error, or
\* whose persist fails, leaves co.config and cmn.GCO as they are; at most one
\* caller is inside runPre, every successful persist counts (no increment is
\* lost), and neither co.config nor cmn.GCO ever goes back
C40_VersionDiscipline ==
    /\ [][co'.config # co.config =>
            \E c \in ConfCallers :
               /\ co.mod[c].pc = "persist" /\ co.mod[c].updated /\ ~co.mod[c].err
               /\ co.mod[c].clone = co.config
               /\ co'.config = co.config + 1
               /\ co'.mod[c].pc = "updateGCO"]_vars
    /\ [][\A c \in ConfCallers :
            (co.mod[c].pc \in {"pre", "persist"} /\ co'.mod[c].pc = "unlock")
               => (co'.config = co.config /\ co'.gco = co.gco)]_vars
    /\ [][\A c \in ConfCallers :
            (co.mod[c].pc = "persist" /\ co'.mod[c].pc = "updateGCO")
               => co'.config = co.config + 1]_vars
    /\ [](\A c, d \in ConfCallers : (inRunPre(c) /\ inRunPre(d)) => c = d)
    /\ [](co.config = co.loaded + co.saved)
    /\ [](co.gco <= co.config)
    /\ [][co'.config >= co.config /\ co'.gco >= co.gco]_vars
    /\ [](\A c \in ConfCallers : co.mod[c].pc = "final" => co.mod[c].clone <= co.config)

C40_Witness ==
    /\ co.config = co.loaded + 3 /\ co.saved = 3
    /\ co.mod[1].pc = "final" /\ co.mod[2].pc = "final"
    /\ co.mod[1].clone # co.mod[2].clone
    /\ co.left = 0
    /\ co.gco < co.config

====
